---- MODULE Spec2Model ----
(***************************************************************************)
(* Point cache store and enrichment orchestrator of the Sofia Urban Data   *)
(* Service: the weather-by-day and OSM-metrics cache-aside pipelines, the  *)
(* request-scoped database session that commits or rolls back their        *)
(* writes, and the handlers that call them.                                *)
(*                                                                         *)
(* Coordinates are integers counting 10^-6 degree; dates are day numbers;  *)
(* the clock counts ticks.  The database is PostgreSQL at READ COMMITTED:  *)
(* a statement sees the committed rows and the rows its own session has    *)
(* flushed.                                                                *)
(***************************************************************************)
EXTENDS Integers, Sequences, FiniteSets, TLC

\* ---------------------------------------------------------------- bounds
MaxDay == 2
MaxPayload == 2
MaxTime == 3
OsmTtlTicks == 1
WeatherTtlTicks == 1
MaxOsmRows == 2
MaxRoadLen == 1
MaxFacilities == 0

Req == {1, 2}
Days == 1..MaxDay
Payloads == 1..MaxPayload
NoDate == 0

\* request points, one in each of two cache buckets
Lats == {42690012, 42690060}
Lons == {23320000}

VARIABLES
    now,        \* wall clock, dt.datetime.now(dt.timezone.utc)
    wxDb,       \* committed rows of table weather_daily_point
    osmDb,      \* committed rows of table osm_metrics_point
    pc,         \* position of each request in its handler
    req,        \* the parameters of each request
    existing,   \* weather rows loaded by the request's last select
    pendWx,     \* weather writes flushed by the request's session, uncommitted
    pendOsm,    \* OSM rows flushed by the request's session, uncommitted
    result,     \* the response under construction
    fetches,    \* external weather fetches issued by the request: <<lat, lon, start, end>>
    err,        \* the exception that ended the handler, "none" otherwise
    detail,     \* what the error response of a rejected call reports
    t0,         \* the clock when the request's OSM compute began
    ov,         \* the run of compute_osm_metrics_point and its Overpass client
    layers,     \* the rows of the static layer tables
    calc        \* a call of a pure helper: its arguments and what it returned

vars == <<now, wxDb, osmDb, pc, req, existing, pendWx, pendOsm, result, fetches, err, detail, t0, ov,
          layers, calc>>

\* ------------------------------------------------------------ quantizer
Scale == 6
WeatherPrecision == 4
OsmPrecision == 5

RECURSIVE Pow10(_)
Pow10(n) == IF n = 0 THEN 1 ELSE 10 * Pow10(n - 1)

\* truncation toward minus infinity instead of rounding
round_coord_floor(x, precision) ==
    LET u == Pow10(Scale - precision) IN (x \div u) * u

\* round(float(x), precision): nearest multiple of 10^-precision, a tie to the even one
round_coord(x, precision) ==
    LET u == Pow10(Scale - precision)
        q == x \div u
        m == x % u
    IN  IF 2 * m < u THEN q * u
        ELSE IF 2 * m > u THEN (q + 1) * u
        ELSE IF q % 2 = 0 THEN q * u ELSE (q + 1) * u

\* ------------------------------------------------------- weather table
WxKey(t) == <<t.lat_round, t.lon_round, t.date, t.provider>>

NoWrites == [ins |-> {}, upd |-> {}]

\* what a session that flushed the writes w reads from the table db
ApplyWrites(db, w) ==
    {t \in db : ~\E u \in w.upd : WxKey(u) = WxKey(t)} \cup w.upd \cup w.ins

\* the select of weather_point.py: bucket, provider and date range
SelectWeatherOpenEnd(rows, lat_r, lon_r, provider, start_date, end_date) ==
    {t \in rows : /\ t.lat_round = lat_r
                  /\ t.lon_round = lon_r
                  /\ t.provider = provider
                  /\ t.date >= start_date}

SelectWeather(rows, lat_r, lon_r, provider, start_date, end_date) ==
    {t \in rows : /\ t.lat_round = lat_r
                  /\ t.lon_round = lon_r
                  /\ t.provider = provider
                  /\ t.date >= start_date
                  /\ t.date <= end_date}

DatesOf(rows) == {t.date : t \in rows}

\* the days of [start_date, end_date] that have no loaded record
MissingAlways(start_date, end_date, existing_dates) ==
    {d \in Days : d >= start_date /\ d <= end_date}

\* a day whose record is older than the weather TTL counts as not loaded
MissingOrExpired(start_date, end_date, existing_dates) ==
    {d \in Days : /\ d >= start_date /\ d <= end_date
                  /\ d \notin existing_dates \/ d < now - WeatherTtlTicks}

Missing(start_date, end_date, existing_dates) ==
    {d \in Days : d >= start_date /\ d <= end_date /\ d \notin existing_dates}

\* OpenMeteoClient.fetch_daily on a response that carries a daily block:
\* one row per day of the requested range
FetchDailyRows(start_date, end_date, p, elev) ==
    {[date |-> d, values |-> [data |-> p, elevation_m |-> elev]] :
        d \in {x \in Days : x >= start_date /\ x <= end_date}}

Elevations == {550}

\* the loop over the fetched rows: the objects added to the session
WeatherWritesOverwrite(fetched, existing_dates, lat_r, lon_r) ==
    LET mk(row) == [lat_round |-> lat_r, lon_round |-> lon_r, date |-> row.date,
                    provider |-> "openmeteo", values |-> row.values]
    IN  [ins |-> {mk(row) : row \in {f \in fetched : f.date \notin existing_dates}},
         upd |-> {mk(row) : row \in {f \in fetched : f.date \in existing_dates}}]

WeatherWrites(fetched, existing_dates, lat_r, lon_r) ==
    LET mk(row) == [lat_round |-> lat_r, lon_round |-> lon_r, date |-> row.date,
                    provider |-> "openmeteo", values |-> row.values]
    IN  [ins |-> {mk(row) : row \in {f \in fetched : f.date \notin existing_dates}},
         upd |-> {}]

\* uq_weather_point_day_provider against the committed rows
UniqueViolationNever(db, ins) == FALSE

UniqueViolation(db, ins) ==
    \E i \in ins : \E t \in db : WxKey(t) = WxKey(i)

\* an insert of a key that another open transaction has inserted waits for it
InsertBlocked(r, ins) ==
    \E r2 \in Req \ {r} : \E i \in ins : \E t \in pendWx[r2].ins : WxKey(t) = WxKey(i)

\* order_by(WeatherDailyPoint.date) and the out list of the handler
RECURSIVE OutRows(_)
OutRows(rows) ==
    IF rows = {} THEN <<>>
    ELSE LET t == CHOOSE x \in rows : \A y \in rows : x.date <= y.date
         IN  <<[date |-> t.date, lat_round |-> t.lat_round, lon_round |-> t.lon_round,
                provider |-> t.provider, values |-> t.values]>> \o OutRows(rows \ {t})

\* --------------------------------------------------- OSM metrics table
Radii == {300, 500}

\* the metrics compute_osm_metrics_point can return: the aggregates of the two
\* map queries (0 when a query failed or matched nothing), the buffer radius,
\* the unrounded point and the source tag
MetricsOf(lat, lon, buffer_m) ==
    {[road_total_length_m |-> a, facility_counts |-> b, buffer_m |-> buffer_m,
      point |-> [lat |-> lat, lon |-> lon], source |-> "overpass"] :
        a \in 0..MaxRoadLen, b \in 0..MaxFacilities}

NoMetrics == [road_total_length_m |-> 0, facility_counts |-> 0, buffer_m |-> 0,
              point |-> [lat |-> 0, lon |-> 0], source |-> "none"]

\* the where clause of get_cached_osm_metrics_point: key and age
OsmCandidatesAnyAge(rows, lat_r, lon_r, buffer_m, cutoff) ==
    {t \in rows : /\ t.lat_round = lat_r
                  /\ t.lon_round = lon_r
                  /\ t.buffer_m = buffer_m}

OsmCandidates(rows, lat_r, lon_r, buffer_m, cutoff) ==
    {t \in rows : /\ t.lat_round = lat_r
                  /\ t.lon_round = lon_r
                  /\ t.buffer_m = buffer_m
                  /\ t.extracted_at >= cutoff}

\* order_by(desc(extracted_at)).limit(1): the rows that can come first
OldestFirst(cands) ==
    {t \in cands : \A u \in cands : u.extracted_at >= t.extracted_at}

NewestFirst(cands) ==
    {t \in cands : \A u \in cands : u.extracted_at <= t.extracted_at}

\* ------------------------------------------------------ Overpass client
\* query(self, query, *, retries=3, backoff_s=2.0); overpass_rate_limit_delay_s
Retries == 3
BackoffS == 2
RateLimitDelayS == 2

\* what query returns: None, or the parsed body as its keys and its elements
NoneData == [none |-> TRUE, keys |-> {}, elements |-> <<>>]

Body(keys, elements) == [none |-> FALSE, keys |-> keys, elements |-> elements]

\* an element of a response: its type, the number of points and the projected
\* length (mm) of its geometry, and the values of its tags ("" for a tag it lacks)
El == [type |-> "node", npoints |-> 0, len_mm |-> 0, highway |-> "", amenity |-> "",
       shop |-> "", leisure |-> "", tourism |-> "", public_transport |-> "", railway |-> ""]

RoadBodies ==
    {Body({}, <<>>),
     Body({"remark"}, <<>>),
     Body({"elements"}, <<>>),
     Body({"elements"}, <<[El EXCEPT !.type = "way", !.highway = "primary", !.npoints = 2,
                              !.len_mm = 120004]>>),
     Body({"elements"}, <<[El EXCEPT !.type = "way", !.highway = "primary_link", !.npoints = 3,
                              !.len_mm = 80005],
                          [El EXCEPT !.type = "way", !.highway = "footway", !.npoints = 2,
                              !.len_mm = 40006]>>),
     Body({"elements"}, <<[El EXCEPT !.highway = "bus_stop"],
                          [El EXCEPT !.type = "way", !.highway = "service", !.npoints = 1]>>),
     Body({"elements"}, <<[El EXCEPT !.type = "way", !.highway = "motorway", !.npoints = 4,
                              !.len_mm = 250004],
                          [El EXCEPT !.type = "way", !.highway = "residential", !.npoints = 2,
                              !.len_mm = 100004],
                          [El EXCEPT !.type = "way", !.npoints = 2, !.len_mm = 70000]>>)}

FacilityBodies ==
    {Body({}, <<>>),
     Body({"remark"}, <<>>),
     Body({"elements"}, <<>>),
     Body({"elements"}, <<[El EXCEPT !.amenity = "cafe"],
                          [El EXCEPT !.shop = "bakery", !.tourism = "attraction"]>>),
     Body({"elements"}, <<[El EXCEPT !.highway = "bus_stop", !.public_transport = "platform"],
                          [El EXCEPT !.railway = "tram_stop", !.leisure = "park"],
                          [El EXCEPT !.railway = "level_crossing"]>>)}

\* `data and "elements" in data`
HasElements(data) == ~data.none /\ data.keys # {} /\ "elements" \in data.keys

\* round(x, 2) of a length in metres, here in mm: the nearest 10 mm, a tie to the even one
round2(x) ==
    LET q == x \div 10
        m == x % 10
    IN  IF 2 * m < 10 THEN q * 10
        ELSE IF 2 * m > 10 THEN (q + 1) * 10
        ELSE IF q % 2 = 0 THEN q * 10 ELSE (q + 1) * 10

\* the ways kept as lines: a way with a highway tag and at least two points
RoadLines(roads_data) ==
    IF HasElements(roads_data)
    THEN SelectSeq(roads_data.elements,
                   LAMBDA el : el.type = "way" /\ el.highway # "" /\ el.npoints >= 2)
    ELSE <<>>

\* the class buckets
BucketNames ==
    {"motorway", "primary", "secondary", "tertiary", "residential", "service", "other"}

BucketAllOther(h) == "other"

\* the class bucket of a highway value
Bucket(h) ==
    IF h \in {"motorway", "motorway_link", "trunk", "trunk_link"} THEN "motorway"
    ELSE IF h \in {"primary", "primary_link"} THEN "primary"
    ELSE IF h \in {"secondary", "secondary_link"} THEN "secondary"
    ELSE IF h \in {"tertiary", "tertiary_link"} THEN "tertiary"
    ELSE IF h \in {"residential", "living_street", "unclassified"} THEN "residential"
    ELSE IF h \in {"service"} THEN "service"
    ELSE "other"

RECURSIVE SumLen(_)
SumLen(lines) == IF lines = <<>> THEN 0 ELSE Head(lines).len_mm + SumLen(Tail(lines))

\* the number of elements that carry the tag
Count(elements, tag) == Cardinality({i \in 1..Len(elements) : elements[i][tag] # ""})

\* the number of elements whose tag has one of the values
CountValues(elements, tag, values) ==
    Cardinality({i \in 1..Len(elements) : elements[i][tag] \in values})

\* compute_osm_metrics_point from the results of its two queries
compute_osm_metrics(roads_data, fac_data, lat, lon, buffer_m) ==
    LET lines == RoadLines(roads_data)
        classes == {Bucket(lines[i].highway) : i \in 1..Len(lines)}
        els == IF HasElements(fac_data) THEN fac_data.elements ELSE <<>>
    IN  [road_total_length_m |-> round2(SumLen(lines)),
         road_length_by_class_m |->
             [b \in classes |->
                 round2(SumLen(SelectSeq(lines, LAMBDA l : Bucket(l.highway) = b)))],
         facility_counts |->
             [amenity |-> Count(els, "amenity"),
              shop |-> Count(els, "shop"),
              leisure |-> Count(els, "leisure"),
              tourism |-> Count(els, "tourism"),
              public_transport |-> Count(els, "public_transport"),
              bus_stop |-> CountValues(els, "highway", {"bus_stop"}),
              rail_stop |-> CountValues(els, "railway",
                                        {"station", "stop", "halt", "tram_stop"})],
         buffer_m |-> buffer_m,
         point |-> [lat |-> lat, lon |-> lon],
         source |-> "overpass"]

\* no compute is running
NoRun == [phase |-> "idle", lat |-> 0, lon |-> 0, buffer_m |-> 0,
          attempt |-> 1, tries |-> [roads |-> 0, facilities |-> 0], slept |-> <<>>,
          delays |-> [roads |-> 0, facilities |-> 0],
          data |-> [roads |-> NoneData, facilities |-> NoneData],
          raised |-> FALSE, metrics |-> NoMetrics]

InQuery == ov.phase \in {"roads", "facilities"}

\* a buffer so small that the map holds one road and one facility inside it
NearBuffer == 50

NearRoadBodies ==
    {Body({"elements"}, <<[El EXCEPT !.type = "way", !.highway = "residential", !.npoints = 2,
                              !.len_mm = 100004]>>)}

NearFacilityBodies == {Body({"elements"}, <<[El EXCEPT !.amenity = "cafe"]>>)}

\* the bodies the endpoint can answer the running query with
Bodies ==
    IF ov.buffer_m = NearBuffer
    THEN IF ov.phase = "roads" THEN NearRoadBodies ELSE NearFacilityBodies
    ELSE IF ov.phase = "roads" THEN RoadBodies ELSE FacilityBodies

\* one more HTTP attempt of the running query
Tried(o) == [o EXCEPT !.tries[o.phase] = @ + 1]

\* the wait after a failed attempt: backoff_s * attempt
Backoff(attempt) == BackoffS * attempt

\* time.sleep(seconds)
Slept(o, seconds) == [o EXCEPT !.slept = Append(@, seconds)]

\* the rate-limit sleep left out
DelayedNever(o) == o

\* time.sleep(self.rate_limit_delay), counted for the running query
Delayed(o) == Slept([o EXCEPT !.delays[o.phase] = @ + 1], RateLimitDelayS)

\* the running query returns data: the roads query is followed by the
\* facilities query, the facilities query by the metrics
ReturnedRaisesOnNone(o, data) ==
    IF data.none THEN [o EXCEPT !.phase = "done", !.attempt = 1, !.raised = TRUE]
    ELSE IF o.phase = "roads"
    THEN [o EXCEPT !.phase = "facilities", !.attempt = 1, !.slept = <<>>,
                   !.data.roads = data]
    ELSE [o EXCEPT !.phase = "done", !.attempt = 1, !.data.facilities = data,
                   !.metrics = compute_osm_metrics(o.data.roads, data,
                                                   o.lat, o.lon, o.buffer_m)]

Returned(o, data) ==
    IF o.phase = "roads"
    THEN [o EXCEPT !.phase = "facilities", !.attempt = 1, !.slept = <<>>,
                   !.data.roads = data]
    ELSE [o EXCEPT !.phase = "done", !.attempt = 1, !.data.facilities = data,
                   !.metrics = compute_osm_metrics(o.data.roads, data,
                                                   o.lat, o.lon, o.buffer_m)]

\* the loop goes to its next attempt, or is over and query returns None
NextAttemptUnbounded(o) == [o EXCEPT !.attempt = @ + 1]

NextAttempt(o) ==
    IF o.attempt = Retries THEN Returned(o, NoneData) ELSE [o EXCEPT !.attempt = @ + 1]

\* compute_osm_metrics_point(lat=, lon=, buffer_m=) starts with the roads query
StartCompute ==
    /\ ov.phase \in {"idle", "done"}
    /\ \E la \in Lats, lo \in Lons, rad \in Radii :
         ov' = [NoRun EXCEPT !.phase = "roads", !.lat = la, !.lon = lo, !.buffer_m = rad]
    /\ UNCHANGED <<layers, calc, now, wxDb, osmDb, pc, req, existing, pendWx, pendOsm, result, fetches, err, detail, t0>>

\* the endpoint answers 429: sleep backoff_s * attempt, continue
AttemptThrottled ==
    /\ InQuery
    /\ ov' = NextAttempt(Slept(Tried(ov), Backoff(ov.attempt)))
    /\ UNCHANGED <<layers, calc, now, wxDb, osmDb, pc, req, existing, pendWx, pendOsm, result, fetches, err, detail, t0>>

\* requests.post or raise_for_status raises: None at the last attempt, else
\* sleep backoff_s * attempt and go on
AttemptError ==
    /\ InQuery
    /\ ov' = IF ov.attempt = Retries
             THEN NextAttempt(Tried(ov))
             ELSE NextAttempt(Slept(Tried(ov), Backoff(ov.attempt)))
    /\ UNCHANGED <<layers, calc, now, wxDb, osmDb, pc, req, existing, pendWx, pendOsm, result, fetches, err, detail, t0>>

\* the status is fine, the rate-limit sleep is taken, and r.json() raises
AttemptBadBody ==
    /\ InQuery
    /\ ov' = IF ov.attempt = Retries
             THEN NextAttempt(Delayed(Tried(ov)))
             ELSE NextAttempt(Slept(Delayed(Tried(ov)), Backoff(ov.attempt)))
    /\ UNCHANGED <<layers, calc, now, wxDb, osmDb, pc, req, existing, pendWx, pendOsm, result, fetches, err, detail, t0>>

\* the status is fine and the body parses: sleep the rate-limit delay, return it
AttemptOk ==
    /\ InQuery
    /\ \E body \in Bodies :
         ov' = Returned(Delayed(Tried(ov)), body)
    /\ UNCHANGED <<layers, calc, now, wxDb, osmDb, pc, req, existing, pendWx, pendOsm, result, fetches, err, detail, t0>>

\* ------------------------------------------------------------- requests
NoReq == [kind |-> "none", lat |-> 0, lon |-> 0, radius_m |-> 0,
          start |-> NoDate, end |-> NoDate,
          include_weather |-> FALSE, include_osm |-> FALSE, osm_refresh |-> FALSE,
          include_geometries |-> FALSE, mode |-> "none", datasets |-> {}, bbox |-> <<>>,
          limit |-> 0, offset |-> 0, dataset_name |-> "", point_given |-> FALSE]

NoOsm == [cached |-> FALSE, metrics |-> NoMetrics]

\* no error response: which input it is about and the names it lists
NoDetail == [about |-> "", unknown |-> {}]

NoBbox == [minx |-> 0, miny |-> 0, maxx |-> 0, maxy |-> 0, source |-> "none"]

NoResult == [has_weather |-> FALSE, rows |-> <<>>, elevation_m |-> 0,
             has_osm |-> FALSE, osm |-> NoOsm,
             has_geometries |-> FALSE, geometries |-> {},
             bbox |-> NoBbox]

\* rows of a layer table with one geometry: their ids lo..hi and its position
Run(lo, hi, x, y) == [lo |-> lo, hi |-> hi, x |-> x, y |-> y]

\* one row
Row(id, x, y) == Run(id, id, x, y)

LayerNames ==
    {"trees", "buildings", "streets", "pedestrian_network", "green_areas", "pois",
     "neighbourhoods"}

\* the imported layers: rows near the request points (within 300 m, within the
\* 300 m envelope only, within 500 m only) and one far away
StaticLayers ==
    [d \in LayerNames |->
        CASE d = "pois" -> {Row(3, 23320500, 42690500), Row(5, 23323000, 42692000),
                            Row(8, 23324000, 42690000), Row(13, 23320100, 42689900),
                            Row(21, 23400000, 42700000)}
          [] d = "streets" -> {Row(2, 23320500, 42690500), Row(7, 23400000, 42700000)}
          [] d = "trees" -> {Row(4, 23323000, 42692000), Row(9, 23320100, 42689900),
                             Row(10, 23320500, 42690500)}
          [] OTHER -> {}]

NoCall == [fn |-> "none"]

Quiet ==
    /\ now = 0
    /\ wxDb = {}
    /\ osmDb = {}
    /\ pc = [r \in Req |-> "idle"]
    /\ req = [r \in Req |-> NoReq]
    /\ existing = [r \in Req |-> {}]
    /\ pendWx = [r \in Req |-> NoWrites]
    /\ pendOsm = [r \in Req |-> {}]
    /\ result = [r \in Req |-> NoResult]
    /\ fetches = [r \in Req |-> <<>>]
    /\ err = [r \in Req |-> "none"]
    /\ detail = [r \in Req |-> NoDetail]
    /\ t0 = [r \in Req |-> 0]
    /\ ov = NoRun
    /\ calc = NoCall

Init ==
    /\ Quiet
    /\ layers = StaticLayers

\* other imports: one more row in front of pois, pois with two rows only, and
\* a layer of pois larger than a page can be, sixty thousand of them in one place
LayerContents ==
    {StaticLayers,
     [StaticLayers EXCEPT !["pois"] = @ \cup {Row(1, 23320100, 42689900)}],
     [StaticLayers EXCEPT !["pois"] = {t \in @ : t.lo \in {5, 13}}],
     [StaticLayers EXCEPT !["pois"] = {Run(1, 60000, 23320100, 42689900),
                                       Row(60003, 23320500, 42690500)}]}

InitLayers ==
    /\ Quiet
    /\ layers \in LayerContents

\* the weather bucket of a request
WxLat(r) == round_coord(req[r].lat, WeatherPrecision)
WxLon(r) == round_coord(req[r].lon, WeatherPrecision)

\* enrich_point runs the layer queries when include_geometries and mode != "none"
GeomEntry(r) ==
    IF req[r].include_geometries /\ req[r].mode # "none" THEN "geoms" ELSE "return"

\* where a handler goes once its weather section is done
AfterWeather(r) == IF req[r].kind = "enrich_point" THEN GeomEntry(r) ELSE "return"

\* the weather part of the response; enrich_point also exposes rows[0]["elevation_m"]
WithWeather(res, kind, out) ==
    [res EXCEPT !.has_weather = TRUE, !.rows = out,
                !.elevation_m = IF kind = "enrich_point" /\ out # <<>>
                                THEN out[1].values.elevation_m ELSE 0]

\* ------------------------------------------------ get_db_session scope
\* a worker takes a request with a new session once its previous one is over
Fresh(r) ==
    /\ existing' = [existing EXCEPT ![r] = {}]
    /\ result' = [result EXCEPT ![r] = NoResult]
    /\ fetches' = [fetches EXCEPT ![r] = <<>>]
    /\ err' = [err EXCEPT ![r] = "none"]
    /\ detail' = [detail EXCEPT ![r] = NoDetail]
    /\ UNCHANGED <<layers, calc, now, ov, wxDb, osmDb, pendWx, pendOsm>>

\* the handler returned: session.commit()
CommitReplacesKey(r) ==
    /\ pc[r] = "return"
    /\ wxDb' = ApplyWrites(wxDb, pendWx[r])
    /\ osmDb' = {t \in osmDb : ~\E u \in pendOsm[r] : /\ u.lat_round = t.lat_round
                                                     /\ u.lon_round = t.lon_round
                                                     /\ u.buffer_m = t.buffer_m}
                \cup pendOsm[r]
    /\ pendWx' = [pendWx EXCEPT ![r] = NoWrites]
    /\ pendOsm' = [pendOsm EXCEPT ![r] = {}]
    /\ pc' = [pc EXCEPT ![r] = "done"]
    /\ UNCHANGED <<layers, calc, now, ov, detail, req, existing, result, fetches, err, t0>>

Commit(r) ==
    /\ pc[r] = "return"
    /\ wxDb' = ApplyWrites(wxDb, pendWx[r])
    /\ osmDb' = osmDb \cup pendOsm[r]
    /\ pendWx' = [pendWx EXCEPT ![r] = NoWrites]
    /\ pendOsm' = [pendOsm EXCEPT ![r] = {}]
    /\ pc' = [pc EXCEPT ![r] = "done"]
    /\ UNCHANGED <<layers, calc, now, ov, detail, req, existing, result, fetches, err, t0>>

\* the handler raised e: session.rollback(), then the exception goes on to the caller
RollbackCommits(r, e) ==
    /\ wxDb' = ApplyWrites(wxDb, pendWx[r])
    /\ osmDb' = osmDb \cup pendOsm[r]
    /\ pendWx' = [pendWx EXCEPT ![r] = NoWrites]
    /\ pendOsm' = [pendOsm EXCEPT ![r] = {}]
    /\ existing' = [existing EXCEPT ![r] = {}]
    /\ result' = [result EXCEPT ![r] = NoResult]
    /\ err' = [err EXCEPT ![r] = e]
    /\ pc' = [pc EXCEPT ![r] = "failed"]

Rollback(r, e) ==
    /\ pendWx' = [pendWx EXCEPT ![r] = NoWrites]
    /\ pendOsm' = [pendOsm EXCEPT ![r] = {}]
    /\ existing' = [existing EXCEPT ![r] = {}]
    /\ result' = [result EXCEPT ![r] = NoResult]
    /\ err' = [err EXCEPT ![r] = e]
    /\ pc' = [pc EXCEPT ![r] = "failed"]
    /\ UNCHANGED <<wxDb, osmDb>>

\* ------------------------------------------------- weather pipeline
\* GET /weather/daily: start and end are required query parameters
StartWeatherDaily(r) ==
    /\ pc[r] \in {"idle", "done", "failed"}
    /\ \E la \in Lats, lo \in Lons, s \in Days, e \in Days :
         req' = [req EXCEPT ![r] = [NoReq EXCEPT !.kind = "weather_daily", !.lat = la, !.lon = lo,
                                                 !.start = s, !.end = e, !.include_weather = TRUE]]
    /\ pc' = [pc EXCEPT ![r] = "wx_select"]
    /\ UNCHANGED t0
    /\ Fresh(r)

\* get_or_fetch_weather_daily_point, the first select with every day present:
\* no fetch, the loaded rows are the out list
WxSelectHit(r) ==
    /\ pc[r] = "wx_select"
    /\ LET rows == SelectWeather(ApplyWrites(wxDb, pendWx[r]), WxLat(r), WxLon(r),
                                 "openmeteo", req[r].start, req[r].end)
       IN  /\ Missing(req[r].start, req[r].end, DatesOf(rows)) = {}
           /\ result' = [result EXCEPT ![r] = WithWeather(@, req[r].kind, OutRows(rows))]
    /\ pc' = [pc EXCEPT ![r] = AfterWeather(r)]
    /\ UNCHANGED <<layers, calc, now, ov, detail, wxDb, osmDb, req, existing, pendWx, pendOsm, fetches, err, t0>>

\* the first select with at least one day missing
WxSelectGap(r) ==
    /\ pc[r] = "wx_select"
    /\ LET rows == SelectWeather(ApplyWrites(wxDb, pendWx[r]), WxLat(r), WxLon(r),
                                 "openmeteo", req[r].start, req[r].end)
       IN  /\ Missing(req[r].start, req[r].end, DatesOf(rows)) # {}
           /\ existing' = [existing EXCEPT ![r] = rows]
    /\ pc' = [pc EXCEPT ![r] = "wx_fetch"]
    /\ UNCHANGED <<layers, calc, now, ov, wxDb, osmDb, req, pendWx, pendOsm, result, fetches, err, detail, t0>>

\* the fetch asked for the point as given
TheFetchFromPoint(r) == <<req[r].lat, req[r].lon, req[r].start, req[r].end>>

\* client.fetch_daily(lat=lat_r, lon=lon_r, start_date=start_date, end_date=end_date)
TheFetch(r) == <<WxLat(r), WxLon(r), req[r].start, req[r].end>>

\* what fetch_daily can return: no row when the response has no daily block
FetchedRows(r) ==
    {{}} \cup {FetchDailyRows(req[r].start, req[r].end, p, el) : p \in Payloads, el \in Elevations}

\* fetch_daily raises: connection error, timeout or raise_for_status
WxFetchError(r) ==
    /\ pc[r] = "wx_fetch"
    /\ fetches' = [fetches EXCEPT ![r] = Append(@, TheFetch(r))]
    /\ Rollback(r, "HTTPError")
    /\ UNCHANGED <<layers, calc, now, ov, detail, req, t0>>

\* fetch_daily returns, the rows of the days not loaded are added, and
\* session.flush() hits uq_weather_point_day_provider: IntegrityError, not caught
WxFlushConflict(r) ==
    /\ pc[r] = "wx_fetch"
    /\ fetches' = [fetches EXCEPT ![r] = Append(@, TheFetch(r))]
    /\ \E fetched \in FetchedRows(r) :
         UniqueViolation(wxDb, WeatherWrites(fetched, DatesOf(existing[r]), WxLat(r), WxLon(r)).ins)
    /\ Rollback(r, "IntegrityError")
    /\ UNCHANGED <<layers, calc, now, ov, detail, req, t0>>

\* fetch_daily returns, the rows of the days not loaded are added, and
\* session.flush() writes them inside the open transaction
WxFlush(r) ==
    /\ pc[r] = "wx_fetch"
    /\ fetches' = [fetches EXCEPT ![r] = Append(@, TheFetch(r))]
    /\ \E fetched \in FetchedRows(r) :
         LET w == WeatherWrites(fetched, DatesOf(existing[r]), WxLat(r), WxLon(r))
         IN  /\ ~UniqueViolation(wxDb, w.ins)
             /\ ~InsertBlocked(r, w.ins)
             /\ pendWx' = [pendWx EXCEPT ![r] = [ins |-> @.ins \cup w.ins, upd |-> @.upd \cup w.upd]]
    /\ existing' = [existing EXCEPT ![r] = {}]
    /\ pc' = [pc EXCEPT ![r] = "wx_reload"]
    /\ UNCHANGED <<layers, calc, now, ov, detail, wxDb, osmDb, req, pendOsm, result, err, t0>>

\* the reload of the range and the out list
WxReload(r) ==
    /\ pc[r] = "wx_reload"
    /\ LET rows == SelectWeather(ApplyWrites(wxDb, pendWx[r]), WxLat(r), WxLon(r),
                                 "openmeteo", req[r].start, req[r].end)
       IN  result' = [result EXCEPT ![r] = WithWeather(@, req[r].kind, OutRows(rows))]
    /\ pc' = [pc EXCEPT ![r] = AfterWeather(r)]
    /\ UNCHANGED <<layers, calc, now, ov, detail, wxDb, osmDb, req, existing, pendWx, pendOsm, fetches, err, t0>>

\* ------------------------------------------------- OSM metrics pipeline
\* the key is the coordinate as given
OsmLatExact(r) == req[r].lat

OsmLat(r) == round_coord(req[r].lat, OsmPrecision)
OsmLon(r) == round_coord(req[r].lon, OsmPrecision)

\* enrich_point: the weather section needs both dates
WeatherEntryNoDateCheck(r) ==
    IF ~req[r].include_weather THEN GeomEntry(r) ELSE "wx_select"

WeatherEntry(r) ==
    IF ~req[r].include_weather THEN GeomEntry(r)
    ELSE IF req[r].start = NoDate \/ req[r].end = NoDate THEN "wx_reject"
    ELSE "wx_select"

\* where a handler goes once its OSM section is done
AfterOsm(r) == IF req[r].kind = "enrich_point" THEN WeatherEntry(r) ELSE "return"

\* get_or_compute_osm_metrics_point looks up the cache unless force_refresh
OsmEntry(force_refresh) == IF force_refresh THEN "osm_compute" ELSE "osm_lookup"

\* GET /osm/metrics
StartOsmMetrics(r) ==
    /\ pc[r] \in {"idle", "done", "failed"}
    /\ \E la \in Lats, lo \in Lons, rad \in Radii, refresh \in BOOLEAN :
         /\ req' = [req EXCEPT ![r] = [NoReq EXCEPT !.kind = "osm_metrics", !.lat = la, !.lon = lo,
                                                   !.radius_m = rad, !.include_osm = TRUE,
                                                   !.osm_refresh = refresh]]
         /\ pc' = [pc EXCEPT ![r] = OsmEntry(refresh)]
         /\ t0' = [t0 EXCEPT ![r] = IF OsmEntry(refresh) = "osm_compute" THEN now ELSE 0]
    /\ Fresh(r)

\* the lookup passes over a record without roads
CachedOsmWithRoads(r) ==
    {t \in NewestFirst(OsmCandidates(osmDb \cup pendOsm[r], OsmLat(r), OsmLon(r),
                                     req[r].radius_m, now - OsmTtlTicks)) :
        t.metrics.road_total_length_m > 0}

\* the rows get_cached_osm_metrics_point can return for request r right now
CachedOsm(r) ==
    NewestFirst(OsmCandidates(osmDb \cup pendOsm[r], OsmLat(r), OsmLon(r),
                              req[r].radius_m, now - OsmTtlTicks))

\* the payload of a hit echoes the point of the request it answers
OsmLookupHitEchoesRequest(r) ==
    /\ pc[r] = "osm_lookup"
    /\ \E t \in CachedOsm(r) :
         result' = [result EXCEPT ![r].has_osm = TRUE,
                                  ![r].osm = [cached |-> TRUE,
                                              metrics |-> [t.metrics EXCEPT
                                                  !.point = [lat |-> req[r].lat,
                                                             lon |-> req[r].lon]]]]
    /\ pc' = [pc EXCEPT ![r] = AfterOsm(r)]
    /\ UNCHANGED <<layers, calc, now, ov, detail, wxDb, osmDb, req, existing, pendWx, pendOsm, fetches, err, t0>>

\* the lookup finds a record: {"cached": True, **cached}
OsmLookupHit(r) ==
    /\ pc[r] = "osm_lookup"
    /\ \E t \in CachedOsm(r) :
         result' = [result EXCEPT ![r].has_osm = TRUE,
                                  ![r].osm = [cached |-> TRUE, metrics |-> t.metrics]]
    /\ pc' = [pc EXCEPT ![r] = AfterOsm(r)]
    /\ UNCHANGED <<layers, calc, now, ov, detail, wxDb, osmDb, req, existing, pendWx, pendOsm, fetches, err, t0>>

\* the lookup finds nothing: go on to compute
OsmLookupMissPurges(r) ==
    /\ pc[r] = "osm_lookup"
    /\ CachedOsm(r) = {}
    /\ osmDb' = {t \in osmDb : ~(/\ t.lat_round = OsmLat(r) /\ t.lon_round = OsmLon(r)
                                 /\ t.buffer_m = req[r].radius_m)}
    /\ pc' = [pc EXCEPT ![r] = "osm_compute"]
    /\ t0' = [t0 EXCEPT ![r] = now]
    /\ UNCHANGED <<layers, calc, now, ov, detail, wxDb, req, existing, pendWx, pendOsm, result, fetches, err>>

OsmLookupMiss(r) ==
    /\ pc[r] = "osm_lookup"
    /\ CachedOsm(r) = {}
    /\ pc' = [pc EXCEPT ![r] = "osm_compute"]
    /\ t0' = [t0 EXCEPT ![r] = now]
    /\ UNCHANGED <<layers, calc, now, ov, detail, wxDb, osmDb, req, existing, pendWx, pendOsm, result, fetches, err>>

\* extracted_at=dt.datetime.now(dt.timezone.utc), read once the map queries are over
StampAtCallTime(began, ended) == began

Stamp(began, ended) == ended

\* every OSM row stored, committed or not
AllOsmRows == osmDb \cup UNION {pendOsm[r] : r \in Req}

\* compute_osm_metrics_point has run its two map queries, which took time; the
\* record is stamped, added and flushed
OsmCompute(r) ==
    /\ pc[r] = "osm_compute"
    /\ now > t0[r]
    /\ Cardinality(AllOsmRows) < MaxOsmRows
    /\ \E m \in MetricsOf(req[r].lat, req[r].lon, req[r].radius_m) :
         /\ pendOsm' = [pendOsm EXCEPT ![r] = @ \cup
                          {[id |-> r, lat_round |-> OsmLat(r), lon_round |-> OsmLon(r),
                            buffer_m |-> req[r].radius_m, extracted_at |-> Stamp(t0[r], now),
                            metrics |-> m]}]
         /\ result' = [result EXCEPT ![r].has_osm = TRUE,
                                     ![r].osm = [cached |-> FALSE, metrics |-> m]]
    /\ pc' = [pc EXCEPT ![r] = AfterOsm(r)]
    /\ t0' = [t0 EXCEPT ![r] = 0]
    /\ UNCHANGED <<layers, calc, now, ov, detail, wxDb, osmDb, req, existing, pendWx, fetches, err>>

\* time passes
Tick ==
    /\ now < MaxTime
    /\ now' = now + 1
    /\ UNCHANGED <<layers, calc, wxDb, osmDb, pc, req, existing, pendWx, pendOsm, result, fetches, err, detail, t0, ov>>

\* ------------------------------------------------------- enrich_point
DatasetModels == {"trees", "buildings", "streets", "green_areas", "pedestrian_network", "pois"}
DefaultDatasets == {"streets", "green_areas", "pois"}
Modes == {"bbox", "radius", "both", "none"}

DatasetMaxLimit(d) == IF d \in {"trees", "buildings"} THEN 10000 ELSE 20000

Min(a, b) == IF a <= b THEN a ELSE b

\* parse_bbox accepts four numbers with minx < maxx and miny < maxy
ParseBboxOk(value) ==
    /\ Len(value) = 4
    /\ value[1] < value[3]
    /\ value[2] < value[4]

\* math.cos(math.radians(lat)) in thousandths: 0.735 at the request points
\* around 42.69 degrees, and its value at the other latitudes used as inputs
CosE3(lat) ==
    CASE lat = 0 -> 1000
      [] lat \in {60000000, -60000000} -> 500
      [] lat = 89000000 -> 17
      [] lat = 120000000 -> -500
      [] lat = -135000000 -> -707
      [] OTHER -> 735

\* a / b of two numbers of either sign, b # 0
Quot(a, b) == IF b > 0 THEN a \div b ELSE -(a \div (-b))

\* bbox_from_point_radius, in 10^-6 degree
bbox_from_point_radius(lat, lon, radius_m) ==
    LET dlat == (radius_m * 1000000) \div 111320
        dlon == Quot(radius_m * 1000000, Quot(111320 * CosE3(lat), 1000))
    IN  [minx |-> lon - dlon, miny |-> lat - dlat, maxx |-> lon + dlon, maxy |-> lat + dlat,
         source |-> "computed_from_radius"]

\* the envelope built from point and radius whatever the call says
EnvelopeFromRadius(q) == bbox_from_point_radius(q.lat, q.lon, q.radius_m)

\* the envelope of the call: an explicit bbox wins
Envelope(q) ==
    IF q.bbox # <<>>
    THEN [minx |-> q.bbox[1], miny |-> q.bbox[2], maxx |-> q.bbox[3], maxy |-> q.bbox[4],
          source |-> "user"]
    ELSE bbox_from_point_radius(q.lat, q.lon, q.radius_m)

Requested(q) == IF q.datasets # {} THEN q.datasets ELSE DefaultDatasets

\* the checks at the top of enrich_point: mode, dataset names, bbox
RejectedAs(q) ==
    IF q.mode \notin Modes THEN "HTTP400"
    ELSE IF Requested(q) \ DatasetModels # {} THEN "HTTP400"
    ELSE IF q.bbox # <<>> /\ ~ParseBboxOk(q.bbox) THEN "ValueError"
    ELSE "none"

\* what the rejection reports: "Unknown datasets: {unknown}" names every
\* requested dataset that is not in DATASET_MODELS
RejectionDetailFirstOnly(q) ==
    IF q.mode \notin Modes THEN [about |-> "mode", unknown |-> {}]
    ELSE IF Requested(q) \ DatasetModels # {}
    THEN [about |-> "datasets",
          unknown |-> {CHOOSE d \in Requested(q) \ DatasetModels : TRUE}]
    ELSE IF q.bbox # <<>> /\ ~ParseBboxOk(q.bbox) THEN [about |-> "bbox", unknown |-> {}]
    ELSE NoDetail

RejectionDetail(q) ==
    IF q.mode \notin Modes THEN [about |-> "mode", unknown |-> {}]
    ELSE IF Requested(q) \ DatasetModels # {}
    THEN [about |-> "datasets", unknown |-> Requested(q) \ DatasetModels]
    ELSE IF q.bbox # <<>> /\ ~ParseBboxOk(q.bbox) THEN [about |-> "bbox", unknown |-> {}]
    ELSE NoDetail

\* latitudes next to the one of the default call: in the same rounding bucket
\* at four and at five decimals, and in another bucket at both
NearLat == 42690013
FarLat == 42690060

\* the default call and the values a parameter can take instead
DefaultCall ==
    [kind |-> "enrich_point", lat |-> 42690012, lon |-> 23320000, radius_m |-> 300,
     start |-> 1, end |-> 1,
     include_weather |-> TRUE, include_osm |-> TRUE, osm_refresh |-> FALSE,
     include_geometries |-> TRUE, mode |-> "both", datasets |-> {}, bbox |-> <<>>,
     limit |-> 2000, offset |-> 0, dataset_name |-> "", point_given |-> TRUE]

\* a well-formed bbox, one with three parts, one with minx >= maxx
BboxInputs == {<<23310000, 42680000, 23330000, 42700000>>,
               <<23310000, 42680000, 23330000>>,
               <<23330000, 42680000, 23310000, 42700000>>}

\* the calls that differ from the default call in one parameter
Deviations(q) ==
    {[q EXCEPT !.start = NoDate], [q EXCEPT !.end = NoDate],
     [q EXCEPT !.include_weather = FALSE], [q EXCEPT !.include_osm = FALSE],
     [q EXCEPT !.osm_refresh = TRUE], [q EXCEPT !.include_geometries = FALSE]}
    \cup {[q EXCEPT !.mode = m] : m \in {"bbox", "radius", "none", "bogus"}}
    \cup {[q EXCEPT !.datasets = d] : d \in {{"pois"}, {"pois", "bogus", "nope"}}}
    \cup {[q EXCEPT !.bbox = b] : b \in BboxInputs}

\* worker 1 issues every such call, worker 2 the default call
EnrichCalls(r) == IF r = 1 THEN {DefaultCall} \cup Deviations(DefaultCall) ELSE {DefaultCall}

\* the first section of an accepted call
EnrichEntry(q) == IF q.include_osm THEN OsmEntry(q.osm_refresh) ELSE "wx_check"

\* GET /enrich/point with a mode, dataset names and bbox that pass the checks
StartEnrichPoint(r) ==
    /\ pc[r] \in {"idle", "done", "failed"}
    /\ \E q \in EnrichCalls(r) :
         /\ RejectedAs(q) = "none"
         /\ req' = [req EXCEPT ![r] = q]
         /\ pc' = [pc EXCEPT ![r] = EnrichEntry(q)]
         /\ t0' = [t0 EXCEPT ![r] = IF EnrichEntry(q) = "osm_compute" THEN now ELSE 0]
         /\ existing' = [existing EXCEPT ![r] = {}]
         /\ result' = [result EXCEPT ![r] = [NoResult EXCEPT !.bbox = Envelope(q)]]
         /\ fetches' = [fetches EXCEPT ![r] = <<>>]
         /\ err' = [err EXCEPT ![r] = "none"]
         /\ detail' = [detail EXCEPT ![r] = NoDetail]
    /\ UNCHANGED <<layers, calc, now, ov, wxDb, osmDb, pendWx, pendOsm>>

\* GET /enrich/point with a bad mode, an unknown dataset name or a malformed bbox
EnrichReject(r) ==
    /\ pc[r] \in {"idle", "done", "failed"}
    /\ \E q \in EnrichCalls(r) :
         /\ RejectedAs(q) # "none"
         /\ req' = [req EXCEPT ![r] = q]
         /\ fetches' = [fetches EXCEPT ![r] = <<>>]
         /\ detail' = [detail EXCEPT ![r] = RejectionDetail(q)]
         /\ Rollback(r, RejectedAs(q))
    /\ UNCHANGED <<layers, calc, now, ov, t0>>

\* include_osm is off: straight to the weather section
EnrichSkipOsm(r) ==
    /\ pc[r] = "wx_check"
    /\ pc' = [pc EXCEPT ![r] = WeatherEntry(r)]
    /\ UNCHANGED <<layers, calc, now, ov, wxDb, osmDb, req, existing, pendWx, pendOsm, result, fetches, err, detail, t0>>

\* include_weather without start or end: HTTPException(400), after the OSM section
EnrichDatesMissing(r) ==
    /\ pc[r] = "wx_reject"
    /\ detail' = [detail EXCEPT ![r] = [about |-> "dates", unknown |-> {}]]
    /\ Rollback(r, "HTTP400")
    /\ UNCHANGED <<layers, calc, now, ov, req, fetches, t0>>

\* --------------------------------------------------- feature queries
\* settings.max_page_size
MaxPageSize == 50000

\* _apply_limit of a limit that is given
apply_limit_unclamped(limit) == limit

apply_limit(limit) == Min(limit, MaxPageSize)

\* ST_Intersects(model.geom, envelope)
Intersects(t, bb) ==
    /\ bb.minx <= t.x /\ t.x <= bb.maxx
    /\ bb.miny <= t.y /\ t.y <= bb.maxy

\* ST_DWithin on geography: the distance in metres, 0.111 m for 10^-6 degree
\* of latitude and that times cos(lat) for 10^-6 degree of longitude
DWithin(t, lat, lon, radius_m) ==
    LET dx == ((t.x - lon) * ((111 * CosE3(lat)) \div 1000)) \div 1000
        dy == ((t.y - lat) * 111) \div 1000
    IN  dx * dx + dy * dy <= radius_m * radius_m

\* .order_by(model.id)
RECURSIVE OrderById(_)
OrderById(rows) ==
    IF rows = {} THEN <<>>
    ELSE LET m == CHOOSE t \in rows : \A u \in rows : t.lo <= u.lo
         IN  <<[lo |-> m.lo, hi |-> m.hi]>> \o OrderById(rows \ {m})

\* the number of rows in a list of id ranges
RECURSIVE Size(_)
Size(ids) == IF ids = <<>> THEN 0 ELSE Head(ids).hi - Head(ids).lo + 1 + Size(Tail(ids))

\* .offset(k): the rows after the first k
RECURSIVE Drop(_, _)
Drop(ids, k) ==
    IF ids = <<>> \/ k = 0 THEN ids
    ELSE LET h == Head(ids)
             n == h.hi - h.lo + 1
         IN  IF k >= n THEN Drop(Tail(ids), k - n)
             ELSE <<[h EXCEPT !.lo = h.lo + k]>> \o Tail(ids)

\* .limit(k): the first k rows
RECURSIVE Take(_, _)
Take(ids, k) ==
    IF ids = <<>> \/ k = 0 THEN <<>>
    ELSE LET h == Head(ids)
             n == h.hi - h.lo + 1
         IN  IF k >= n THEN <<h>> \o Take(Tail(ids), k - n)
             ELSE <<[h EXCEPT !.hi = h.lo + k - 1]>>

\* .limit(limit_n).offset(offset)
Page(ids, limit_n, offset) == Take(Drop(ids, offset), limit_n)

\* a feature query as issued and the id ranges of the features it returned
FeatureQuery == [mode |-> "none", dataset |-> "", limit |-> 0, offset |-> 0,
                 minx |-> 0, miny |-> 0, maxx |-> 0, maxy |-> 0,
                 lat |-> 0, lon |-> 0, radius_m |-> 0, ids |-> <<>>]

get_features_bbox(d, bb, limit, offset) ==
    LET limit_n == apply_limit(limit)
        hits == {u \in layers[d] : Intersects(u, bb)}
    IN  [FeatureQuery EXCEPT !.mode = "bbox", !.dataset = d, !.limit = limit_n,
                             !.offset = offset,
                             !.minx = bb.minx, !.miny = bb.miny,
                             !.maxx = bb.maxx, !.maxy = bb.maxy,
                             !.ids = Page(OrderById(hits), limit_n, offset)]

get_features_radius(d, lat, lon, radius_m, limit, offset) ==
    LET limit_n == apply_limit(limit)
        hits == {u \in layers[d] : DWithin(u, lat, lon, radius_m)}
    IN  [FeatureQuery EXCEPT !.mode = "radius", !.dataset = d, !.limit = limit_n,
                             !.offset = offset,
                             !.lat = lat, !.lon = lon, !.radius_m = radius_m,
                             !.ids = Page(OrderById(hits), limit_n, offset)]

\* the layer queries of the requested datasets in the requested modes, with
\* the envelope bb of the call
LayerQueries(q, bb) ==
    (IF q.mode \in {"bbox", "both"}
     THEN {get_features_bbox(d, bb, Min(q.limit, DatasetMaxLimit(d)), 0) : d \in Requested(q)}
     ELSE {})
    \cup
    (IF q.mode \in {"radius", "both"}
     THEN {get_features_radius(d, q.lat, q.lon, q.radius_m,
                               Min(q.limit, DatasetMaxLimit(d)), 0) : d \in Requested(q)}
     ELSE {})

\* the queries delete the rows they return
GeomsDeletesReturned(r) ==
    /\ pc[r] = "geoms"
    /\ result' = [result EXCEPT ![r].has_geometries = TRUE,
                                ![r].geometries = LayerQueries(req[r], result[r].bbox)]
    /\ layers' = [d \in LayerNames |->
                    {t \in layers[d] :
                        ~\E g \in LayerQueries(req[r], result[r].bbox) :
                            /\ g.dataset = d
                            /\ \E i \in 1..Len(g.ids) : g.ids[i].lo <= t.hi /\ t.lo <= g.ids[i].hi}]
    /\ pc' = [pc EXCEPT ![r] = "return"]
    /\ UNCHANGED <<calc, now, ov, detail, wxDb, osmDb, req, existing, pendWx, pendOsm, fetches, err, t0>>

\* get_features_bbox / get_features_radius for every requested layer
Geoms(r) ==
    /\ pc[r] = "geoms"
    /\ result' = [result EXCEPT ![r].has_geometries = TRUE,
                                ![r].geometries = LayerQueries(req[r], result[r].bbox)]
    /\ pc' = [pc EXCEPT ![r] = "return"]
    /\ UNCHANGED <<layers, calc, now, ov, detail, wxDb, osmDb, req, existing, pendWx, pendOsm, fetches, err, t0>>

\* a layer query fails in the database
GeomsFail(r) ==
    /\ pc[r] = "geoms"
    /\ Rollback(r, "OperationalError")
    /\ UNCHANGED <<layers, calc, now, ov, detail, req, fetches, t0>>

\* ------------------------------------------------- get_dataset_features
\* DATASET_MAX_LIMIT of the datasets router; a layer it does not list has no cap
RouterMaxLimit(d, limit) ==
    IF d \in {"trees", "buildings", "streets", "green_areas"} THEN 20000 ELSE limit

BboxRequired == {"trees", "buildings"}

\* where get_dataset_features ends: an error, or the query it runs
DatasetOutcome(q) ==
    IF q.dataset_name \notin LayerNames THEN "HTTP404"
    ELSE IF q.dataset_name \in BboxRequired /\ q.bbox = <<>> THEN "HTTP400"
    ELSE IF q.bbox # <<>> THEN (IF ParseBboxOk(q.bbox) THEN "bbox" ELSE "ValueError")
    ELSE IF q.point_given THEN "radius"
    ELSE "HTTP400"

\* the query of an accepted call, with the limit clamped per dataset
DatasetQuery(q) ==
    LET limit == Min(q.limit, RouterMaxLimit(q.dataset_name, q.limit))
    IN  IF DatasetOutcome(q) = "bbox"
        THEN get_features_bbox(q.dataset_name, Envelope(q), limit, q.offset)
        ELSE get_features_radius(q.dataset_name, q.lat, q.lon, q.radius_m, limit, q.offset)

Limits == {1, 2, 2000, 15000, 50000, 60000}
MaxOffset == 4

\* no filter, a bbox, a malformed bbox, a point with either radius, bbox and point
Filters ==
    {[bbox |-> b, point_given |-> g, radius_m |-> m] :
        b \in {<<>>, <<23310000, 42680000, 23330000, 42700000>>},
        g \in BOOLEAN, m \in {300}}
    \cup {[bbox |-> <<23310000, 42680000, 23330000>>, point_given |-> FALSE, radius_m |-> 300],
          [bbox |-> <<>>, point_given |-> TRUE, radius_m |-> 500]}

DatasetCall(name, f, limit, offset) ==
    [NoReq EXCEPT !.kind = "dataset_features", !.dataset_name = name,
                  !.bbox = f.bbox, !.point_given = f.point_given,
                  !.lat = IF f.point_given THEN 42690012 ELSE 0,
                  !.lon = IF f.point_given THEN 23320000 ELSE 0,
                  !.radius_m = f.radius_m, !.limit = limit, !.offset = offset]

\* worker 1 asks for any layer with any limit, worker 2 pages through pois;
\* each issues one call, the calls being reads that do not affect one another
DatasetCalls(r) ==
    IF r = 1
    THEN {DatasetCall(name, f, limit, offset) :
             name \in {"pois", "trees", "streets", "neighbourhoods", "bogus"},
             f \in Filters, limit \in Limits, offset \in 0..2}
    ELSE {DatasetCall("pois", f, limit, offset) :
             f \in {g \in Filters : g.bbox = <<>> <=> g.point_given},
             limit \in {1, 2, 60000}, offset \in 0..MaxOffset \cup {50000, 60000}}

\* GET /datasets/{dataset_name} that runs its query
DatasetFeatures(r) ==
    /\ pc[r] = "idle"
    /\ \E q \in DatasetCalls(r) :
         /\ DatasetOutcome(q) \in {"bbox", "radius"}
         /\ req' = [req EXCEPT ![r] = q]
         /\ result' = [result EXCEPT ![r] = [NoResult EXCEPT !.has_geometries = TRUE,
                                                             !.geometries = {DatasetQuery(q)}]]
    /\ pc' = [pc EXCEPT ![r] = "return"]
    /\ existing' = [existing EXCEPT ![r] = {}]
    /\ fetches' = [fetches EXCEPT ![r] = <<>>]
    /\ err' = [err EXCEPT ![r] = "none"]
    /\ detail' = [detail EXCEPT ![r] = NoDetail]
    /\ UNCHANGED <<layers, calc, now, ov, wxDb, osmDb, pendWx, pendOsm, t0>>

\* GET /datasets/{dataset_name} that ends in an error before any query
DatasetFeaturesReject(r) ==
    /\ pc[r] = "idle"
    /\ \E q \in DatasetCalls(r) :
         /\ DatasetOutcome(q) \notin {"bbox", "radius"}
         /\ req' = [req EXCEPT ![r] = q]
         /\ detail' = [detail EXCEPT ![r] = [about |-> IF q.dataset_name \notin LayerNames
                                                      THEN "dataset_name" ELSE "bbox",
                                            unknown |-> {}]]
         /\ Rollback(r, DatasetOutcome(q))
    /\ fetches' = [fetches EXCEPT ![r] = <<>>]
    /\ UNCHANGED <<layers, calc, now, ov, t0>>

\* enrich_point calls for geometries alone, in one mode
GeometryCalls ==
    {[DefaultCall EXCEPT !.include_osm = FALSE, !.include_weather = FALSE,
                         !.mode = m, !.datasets = d, !.limit = limit] :
        m \in {"bbox", "radius"}, d \in {{}, {"trees"}}, limit \in Limits}

\* GET /enrich/point of worker 1 with one of these calls
StartEnrichGeometries(r) ==
    /\ r = 1
    /\ pc[r] = "idle"
    /\ \E q \in GeometryCalls :
         /\ RejectedAs(q) = "none"
         /\ req' = [req EXCEPT ![r] = q]
         /\ pc' = [pc EXCEPT ![r] = EnrichEntry(q)]
         /\ result' = [result EXCEPT ![r] = [NoResult EXCEPT !.bbox = Envelope(q)]]
    /\ t0' = [t0 EXCEPT ![r] = 0]
    /\ existing' = [existing EXCEPT ![r] = {}]
    /\ fetches' = [fetches EXCEPT ![r] = <<>>]
    /\ err' = [err EXCEPT ![r] = "none"]
    /\ detail' = [detail EXCEPT ![r] = NoDetail]
    /\ UNCHANGED <<layers, calc, now, ov, wxDb, osmDb, pendWx, pendOsm>>

\* enrich_point calls for OSM metrics and weather alone: worker 1 from the point
\* of the default call or from one in another bucket, worker 2 from a point one
\* millionth of a degree north of the default, which rounds to the same keys
PlaceCalls(r) ==
    LET q == [DefaultCall EXCEPT !.include_geometries = FALSE]
    IN  IF r = 1 THEN {q, [q EXCEPT !.lat = FarLat]} ELSE {[q EXCEPT !.lat = NearLat]}

\* GET /enrich/point with one of these calls
StartEnrichPlace(r) ==
    /\ pc[r] \in {"idle", "done", "failed"}
    /\ \E q \in PlaceCalls(r) :
         /\ RejectedAs(q) = "none"
         /\ req' = [req EXCEPT ![r] = q]
         /\ pc' = [pc EXCEPT ![r] = EnrichEntry(q)]
         /\ t0' = [t0 EXCEPT ![r] = IF EnrichEntry(q) = "osm_compute" THEN now ELSE 0]
         /\ result' = [result EXCEPT ![r] = [NoResult EXCEPT !.bbox = Envelope(q)]]
    /\ existing' = [existing EXCEPT ![r] = {}]
    /\ fetches' = [fetches EXCEPT ![r] = <<>>]
    /\ err' = [err EXCEPT ![r] = "none"]
    /\ detail' = [detail EXCEPT ![r] = NoDetail]
    /\ UNCHANGED <<layers, calc, now, ov, wxDb, osmDb, pendWx, pendOsm>>

\* ------------------------------------------- OSM metrics with the client
\* GET /osm/metrics from two points of one bucket, each worker once: worker 1
\* with or without a forced refresh, worker 2 without
ClientCalls(r) ==
    {[NoReq EXCEPT !.kind = "osm_metrics", !.lat = IF r = 1 THEN 42690012 ELSE NearLat,
                   !.lon = 23320000, !.radius_m = NearBuffer, !.include_osm = TRUE,
                   !.osm_refresh = refresh] : refresh \in IF r = 1 THEN BOOLEAN ELSE {FALSE}}

StartOsmClient(r) ==
    /\ pc[r] = "idle"
    /\ \E q \in ClientCalls(r) :
         /\ req' = [req EXCEPT ![r] = q]
         /\ pc' = [pc EXCEPT ![r] = OsmEntry(q.osm_refresh)]
    /\ UNCHANGED t0
    /\ Fresh(r)

\* compute_osm_metrics_point(lat=lat, lon=lon, buffer_m=buffer_m) is called and
\* its client starts the roads query; one compute runs at a time, and the run
\* before it is forgotten
OsmQueryStart(r) ==
    /\ pc[r] = "osm_compute"
    /\ ov.phase \in {"idle", "done"}
    /\ \A s \in Req : pc[s] # "osm_query"
    /\ ov' = [NoRun EXCEPT !.phase = "roads", !.lat = req[r].lat, !.lon = req[r].lon,
                           !.buffer_m = req[r].radius_m]
    /\ pc' = [pc EXCEPT ![r] = "osm_query"]
    /\ UNCHANGED <<layers, calc, now, wxDb, osmDb, req, existing, pendWx, pendOsm, result, fetches, err, detail, t0>>

\* compute_osm_metrics_point returns its metrics; the record is stamped, added
\* and flushed, and the payload is {"cached": False, **metrics}
OsmStore(r) ==
    /\ pc[r] = "osm_query"
    /\ ov.phase = "done"
    /\ pendOsm' = [pendOsm EXCEPT ![r] = @ \cup
                     {[id |-> r, lat_round |-> OsmLat(r), lon_round |-> OsmLon(r),
                       buffer_m |-> req[r].radius_m, extracted_at |-> Stamp(t0[r], now),
                       metrics |-> ov.metrics]}]
    /\ result' = [result EXCEPT ![r].has_osm = TRUE,
                                ![r].osm = [cached |-> FALSE, metrics |-> ov.metrics]]
    /\ pc' = [pc EXCEPT ![r] = AfterOsm(r)]
    /\ t0' = [t0 EXCEPT ![r] = 0]
    /\ UNCHANGED <<layers, calc, now, ov, detail, wxDb, osmDb, req, existing, pendWx, fetches, err>>

\* ------------------------------------------------------------ purge_cache
\* the delete also takes the row that is exactly at the cutoff
BeforeCutoffOrAt(value, cutoff) == value <= cutoff

\* the where clause of a delete: the column is before the cutoff
BeforeCutoff(value, cutoff) == value < cutoff

\* main: both deletes in one session_scope, committed at its end; the OSM
\* delete is by extracted_at, the weather delete by the day of the record
Purge ==
    /\ osmDb' = {t \in osmDb : ~BeforeCutoff(t.extracted_at, now - OsmTtlTicks)}
    /\ wxDb' = {t \in wxDb : ~BeforeCutoff(t.date, now - WeatherTtlTicks)}
    /\ UNCHANGED <<layers, calc, now, pc, req, existing, pendWx, pendOsm, result, fetches, err,
                   detail, t0, ov>>

\* the calls made while the purge is scheduled: worker 1 asks for the weather of
\* a range or for OSM metrics, worker 2 for OSM metrics with or without refresh
CacheCalls(r) ==
    LET q == [NoReq EXCEPT !.lat = 42690012, !.lon = 23320000]
        osm == [q EXCEPT !.kind = "osm_metrics", !.radius_m = 300, !.include_osm = TRUE]
    IN  IF r = 1
        THEN {osm} \cup {[q EXCEPT !.kind = "weather_daily", !.start = s, !.end = e,
                                   !.include_weather = TRUE] : s \in Days, e \in Days}
        ELSE {osm, [osm EXCEPT !.osm_refresh = TRUE]}

\* where a call starts
CacheEntry(q) == IF q.kind = "weather_daily" THEN "wx_select" ELSE OsmEntry(q.osm_refresh)

\* GET /weather/daily or GET /osm/metrics with one of these calls
StartCacheCall(r) ==
    /\ pc[r] \in {"idle", "done", "failed"}
    /\ \E q \in CacheCalls(r) :
         /\ req' = [req EXCEPT ![r] = q]
         /\ pc' = [pc EXCEPT ![r] = CacheEntry(q)]
         /\ t0' = [t0 EXCEPT ![r] = IF CacheEntry(q) = "osm_compute" THEN now ELSE 0]
    /\ Fresh(r)

\* --------------------------------------------------------- pure helpers
MaxCoord == 160

\* coordinates on both sides of zero, several rounding units wide
CoordSamples == -MaxCoord..MaxCoord

\* _round_coord applied to two coordinates, and applied again to the first key
Quantize ==
    /\ calc = NoCall
    /\ \E x \in CoordSamples, y \in CoordSamples,
          precision \in {WeatherPrecision, OsmPrecision} :
         calc' = [fn |-> "round_coord", x |-> x, y |-> y, precision |-> precision,
                  kx |-> round_coord(x, precision), ky |-> round_coord(y, precision),
                  kkx |-> round_coord(round_coord(x, precision), precision)]
    /\ UNCHANGED <<now, wxDb, osmDb, pc, req, existing, pendWx, pendOsm, result, fetches, err,
                   detail, t0, ov, layers>>

\* latitudes, longitudes and radii that enrich_point accepts: lat and lon are
\* any float, radius_m is an int in 1..MAX_RADIUS_M
LatSamples == Lats \cup {0, 60000000, -60000000, 89000000, 120000000, -135000000}
LonSamples == Lons \cup {0, -179999000}
RadiusSamples == {1, 150, 300, 500, 600, 1000}

\* bbox_from_point_radius applied to a point with a radius and with another
BuildBbox ==
    /\ calc = NoCall
    /\ \E lat \in LatSamples, lon \in LonSamples, r1 \in RadiusSamples, r2 \in RadiusSamples :
         calc' = [fn |-> "bbox_from_point_radius", lat |-> lat, lon |-> lon,
                  r1 |-> r1, r2 |-> r2,
                  b1 |-> bbox_from_point_radius(lat, lon, r1),
                  b2 |-> bbox_from_point_radius(lat, lon, r2)]
    /\ UNCHANGED <<now, wxDb, osmDb, pc, req, existing, pendWx, pendOsm, result, fetches, err,
                   detail, t0, ov, layers>>

\* ------------------------------------------------------- specifications
NextWx ==
    \E r \in Req :
        \/ StartWeatherDaily(r)
        \/ WxSelectHit(r)
        \/ WxSelectGap(r)
        \/ WxFetchError(r)
        \/ WxFlushConflict(r)
        \/ WxFlush(r)
        \/ WxReload(r)
        \/ Commit(r)

SpecWx == Init /\ [][NextWx]_vars

NextOsm ==
    \/ Tick
    \/ \E r \in Req :
        \/ StartOsmMetrics(r)
        \/ OsmLookupHit(r)
        \/ OsmLookupMiss(r)
        \/ OsmCompute(r)
        \/ Commit(r)

SpecOsm == Init /\ [][NextOsm]_vars

NextEnrich ==
    \/ Tick
    \/ \E r \in Req :
        \/ StartEnrichPoint(r)
        \/ EnrichReject(r)
        \/ EnrichSkipOsm(r)
        \/ OsmLookupHit(r)
        \/ OsmLookupMiss(r)
        \/ OsmCompute(r)
        \/ EnrichDatesMissing(r)
        \/ WxSelectHit(r)
        \/ WxSelectGap(r)
        \/ WxFetchError(r)
        \/ WxFlushConflict(r)
        \/ WxFlush(r)
        \/ WxReload(r)
        \/ Geoms(r)
        \/ GeomsFail(r)
        \/ Commit(r)

SpecEnrich == Init /\ [][NextEnrich]_vars

NextOverpass ==
    \/ StartCompute
    \/ AttemptThrottled
    \/ AttemptError
    \/ AttemptBadBody
    \/ AttemptOk

SpecOverpass == Init /\ [][NextOverpass]_vars

NextOsmClient ==
    \/ Tick
    \/ AttemptThrottled
    \/ AttemptError
    \/ AttemptBadBody
    \/ AttemptOk
    \/ \E r \in Req :
        \/ StartOsmClient(r)
        \/ OsmLookupHit(r)
        \/ OsmLookupMiss(r)
        \/ OsmQueryStart(r)
        \/ OsmStore(r)
        \/ Commit(r)

SpecOsmClient == Init /\ [][NextOsmClient]_vars

NextPurge ==
    \/ Tick
    \/ Purge
    \/ \E r \in Req :
        \/ StartCacheCall(r)
        \/ WxSelectHit(r)
        \/ WxSelectGap(r)
        \/ WxFetchError(r)
        \/ WxFlush(r)
        \/ WxReload(r)
        \/ OsmLookupHit(r)
        \/ OsmLookupMiss(r)
        \/ OsmCompute(r)
        \/ Commit(r)

SpecPurge == Init /\ [][NextPurge]_vars

NextPlace ==
    \/ Tick
    \/ \E r \in Req :
        \/ StartEnrichPlace(r)
        \/ OsmLookupHit(r)
        \/ OsmLookupMiss(r)
        \/ OsmCompute(r)
        \/ WxSelectHit(r)
        \/ WxSelectGap(r)
        \/ WxFetchError(r)
        \/ WxFlushConflict(r)
        \/ WxFlush(r)
        \/ WxReload(r)
        \/ Commit(r)

SpecPlace == Init /\ [][NextPlace]_vars

NextLayers ==
    \E r \in Req :
        \/ DatasetFeatures(r)
        \/ DatasetFeaturesReject(r)
        \/ StartEnrichGeometries(r)
        \/ EnrichSkipOsm(r)
        \/ Geoms(r)
        \/ Commit(r)

SpecLayers == InitLayers /\ [][NextLayers]_vars

NextGeo ==
    \/ Quantize
    \/ BuildBbox

SpecGeo == Init /\ [][NextGeo]_vars

\* -------------------------------------------------- weather properties
RangeDays(r) == {d \in Days : req[r].start <= d /\ d <= req[r].end}

\* the rows a statement of request r can see, written out from the tables
SeenWx(r) == wxDb \cup pendWx[r].ins

DayRecorded(r, d) ==
    \E t \in SeenWx(r) : /\ t.lat_round = round_coord(req[r].lat, 4)
                         /\ t.lon_round = round_coord(req[r].lon, 4)
                         /\ t.date = d
                         /\ t.provider = "openmeteo"

InWeatherCall(r) == pc[r] \in {"wx_select", "wx_fetch", "wx_reload"}

\* C1: a call of get_or_fetch_weather_daily_point goes on to the external fetch
\* exactly when some day of [start, end] has no record for its bucket; it issues
\* that fetch once, for the whole range and the rounded point, and with every
\* day recorded it issues none.
C1_OneFetchIffGap ==
    [][\A r \in Req :
          /\ (pc[r] = "wx_select" /\ pc'[r] # "wx_select") =>
                /\ fetches'[r] = <<>>
                /\ (pc'[r] = "wx_fetch") <=> (\E d \in RangeDays(r) : ~DayRecorded(r, d))
          /\ (pc[r] = "wx_fetch" /\ pc'[r] # "wx_fetch") =>
                fetches'[r] = << <<round_coord(req[r].lat, 4), round_coord(req[r].lon, 4),
                                   req[r].start, req[r].end>> >>
          /\ (pc[r] = "wx_reload" /\ pc'[r] # "wx_reload") =>
                (fetches'[r] = fetches[r] /\ Len(fetches[r]) = 1)
          /\ (~InWeatherCall(r) /\ ~InWeatherCall(r)') =>
                (fetches'[r] = fetches[r] \/ fetches'[r] = <<>>)
      ]_vars

\* a two-day range with one day recorded and one missing: one fetch, one new row
C1_Witness ==
    \E r \in Req : /\ pc[r] = "wx_reload"
                   /\ req[r].start < req[r].end
                   /\ Len(fetches[r]) = 1
                   /\ fetches[r][1][3] = req[r].start /\ fetches[r][1][4] = req[r].end
                   /\ Cardinality(pendWx[r].ins) = 1

\* C2: the committed weather table holds at most one record for each
\* (rounded lat, rounded lon, date, provider).
C2_UniqueDayRecord ==
    \A t1 \in wxDb : \A t2 \in wxDb :
        (/\ t1.lat_round = t2.lat_round /\ t1.lon_round = t2.lon_round
         /\ t1.date = t2.date /\ t1.provider = t2.provider) => t1 = t2

\* a committed request fetched a range of which one day was recorded already
C2_Witness ==
    \E r \in Req : /\ pc[r] = "done"
                   /\ Len(fetches[r]) = 1
                   /\ Len(result[r].rows) = 2
                   /\ result[r].rows[1].values # result[r].rows[2].values
                   /\ \A i \in 1..2 : \E t \in wxDb : /\ t.date = result[r].rows[i].date
                                                     /\ t.lat_round = result[r].rows[i].lat_round
                                                     /\ t.values = result[r].rows[i].values

\* C3: a request whose insert hits the uniqueness constraint is not failed by it.
C3_UniqueViolationBenign ==
    \A r \in Req : pc[r] = "failed" => err[r] # "IntegrityError"

\* C9: no step changes or removes a committed weather record: whatever a
\* gap-filling request fetched for a day that had a record, the record stays.
C9_ExistingDaysUntouched ==
    [][\A t \in wxDb : t \in wxDb']_vars

\* a gap fill holds new days while the fetch gave other values for a recorded day
C9_Witness ==
    \E r \in Req : /\ pc[r] = "wx_reload"
                   /\ pendWx[r].ins # {}
                   /\ \E t \in wxDb, i \in pendWx[r].ins :
                        /\ t.lat_round = i.lat_round /\ t.lon_round = i.lon_round
                        /\ t.date \in RangeDays(r) /\ t.date # i.date
                        /\ t.values # i.values

SameWeatherRequest(r1, r2) ==
    /\ round_coord(req[r1].lat, 4) = round_coord(req[r2].lat, 4)
    /\ round_coord(req[r1].lon, 4) = round_coord(req[r2].lon, 4)
    /\ req[r1].start = req[r2].start
    /\ req[r1].end = req[r2].end

\* the request is over, committed, and returned a row for every day of its range
FilledRange(r) ==
    /\ pc[r] = "done"
    /\ req[r].kind = "weather_daily"
    /\ req[r].start <= req[r].end
    /\ Len(result[r].rows) = req[r].end - req[r].start + 1

\* C10: a weather request that reads the cache after a request for the same
\* bucket and range has filled it and committed issues no fetch, writes no
\* record and returns the rows the first request returned.
C10_RepeatServedFromCache ==
    [][\A r1 \in Req : \A r2 \in Req \ {r1} :
          (FilledRange(r1) /\ SameWeatherRequest(r1, r2)) =>
              /\ (pc[r2] = "wx_select" /\ pc'[r2] # "wx_select") =>
                    /\ pc'[r2] = "return"
                    /\ fetches'[r2] = <<>>
                    /\ pendWx'[r2].ins = {} /\ pendWx'[r2].upd = {}
                    /\ result'[r2].rows = result[r1].rows
              /\ (pc[r2] = "return" /\ fetches[r2] = <<>> /\ pc'[r2] = "done") =>
                    (wxDb' = wxDb /\ result'[r2].rows = result[r1].rows)
      ]_vars

\* the first request fetched and filled two days, the repeat is over without a fetch
C10_Witness ==
    \E r1 \in Req : \E r2 \in Req \ {r1} :
        /\ FilledRange(r1) /\ Len(fetches[r1]) = 1 /\ Len(result[r1].rows) = 2
        /\ SameWeatherRequest(r1, r2)
        /\ pc[r2] = "done" /\ fetches[r2] = <<>>
        /\ result[r2].rows = result[r1].rows

\* ------------------------------------------------------ OSM properties
SameOsmKey(t, r) ==
    /\ t.lat_round = round_coord(req[r].lat, 5)
    /\ t.lon_round = round_coord(req[r].lon, 5)
    /\ t.buffer_m = req[r].radius_m

\* the records of the request's key that are no older than the TTL
FreshOsm(r) ==
    {t \in osmDb \cup pendOsm[r] : SameOsmKey(t, r) /\ now - t.extracted_at <= OsmTtlTicks}

\* r1 computed and committed, and its record is still fresh and the newest of its key
JustComputed(r1) ==
    /\ pc[r1] = "done"
    /\ req[r1].kind = "osm_metrics"
    /\ ~result[r1].osm.cached
    /\ \E t \in osmDb :
         /\ t.id = r1 /\ SameOsmKey(t, r1) /\ t.metrics = result[r1].osm.metrics
         /\ now - t.extracted_at <= OsmTtlTicks
         /\ \A u \in osmDb \ {t} : SameOsmKey(u, r1) => u.extracted_at < t.extracted_at

SameOsmRequest(r1, r2) ==
    /\ round_coord(req[r1].lat, 5) = round_coord(req[r2].lat, 5)
    /\ round_coord(req[r1].lon, 5) = round_coord(req[r2].lon, 5)
    /\ req[r1].radius_m = req[r2].radius_m

\* C4: a lookup without forced refresh, made right after a committed compute
\* for the same (rounded lat, rounded lon, buffer radius), answers cached=true
\* with the metrics that compute stored.
C4_CachedAfterCompute ==
    [][\A r1 \in Req : \A r2 \in Req \ {r1} :
          (/\ JustComputed(r1)
           /\ SameOsmRequest(r1, r2)
           /\ pc[r2] = "osm_lookup" /\ pc'[r2] # "osm_lookup") =>
              /\ pc'[r2] = "return"
              /\ result'[r2].osm.cached
              /\ result'[r2].osm.metrics = result[r1].osm.metrics
              /\ pendOsm'[r2] = pendOsm[r2]
      ]_vars

\* the second request got the first one's metrics while an older record of the key exists
C4_Witness ==
    \E r1 \in Req : \E r2 \in Req \ {r1} :
        /\ JustComputed(r1)
        /\ SameOsmRequest(r1, r2)
        /\ pc[r2] = "done" /\ ~req[r2].osm_refresh
        /\ result[r2].osm.cached
        /\ result[r2].osm.metrics = result[r1].osm.metrics
        /\ \E u \in osmDb : SameOsmKey(u, r1) /\ u.metrics # result[r1].osm.metrics

\* C5: a forced refresh goes to the compute without a lookup; the compute
\* answers cached=false and adds one record of the key, whose extraction
\* timestamp is later than that of every record that was stored when the
\* call began.
C5_ForcedRefreshNewer ==
    [][\A r \in Req :
          /\ (pc[r] \in {"idle", "done", "failed"} /\ pc'[r] \notin {"idle", "done", "failed"}
              /\ req'[r].kind = "osm_metrics" /\ req'[r].osm_refresh) =>
                /\ pc'[r] = "osm_compute"
                /\ ~result'[r].has_osm
                /\ \A t \in AllOsmRows : t.extracted_at <= t0'[r]
          /\ (pc[r] = "osm_compute" /\ pc'[r] # "osm_compute" /\ req[r].osm_refresh) =>
                /\ result'[r].has_osm /\ ~result'[r].osm.cached
                /\ \E n \in pendOsm'[r] :
                     /\ n \notin AllOsmRows
                     /\ pendOsm'[r] = pendOsm[r] \cup {n}
                     /\ SameOsmKey(n, r)
                     /\ n.metrics = result'[r].osm.metrics
                     /\ \A t \in AllOsmRows :
                          (SameOsmKey(t, r) /\ t.extracted_at <= t0[r]) =>
                              n.extracted_at > t.extracted_at
      ]_vars

\* a forced refresh committed a second record while the first was still fresh
C5_Witness ==
    \E r \in Req :
        /\ pc[r] = "done" /\ req[r].osm_refresh /\ ~result[r].osm.cached
        /\ \E n \in osmDb, t \in osmDb :
             /\ SameOsmKey(n, r) /\ SameOsmKey(t, r)
             /\ n.id = r /\ n.metrics = result[r].osm.metrics
             /\ t.extracted_at < n.extracted_at
             /\ n.extracted_at - t.extracted_at <= OsmTtlTicks

\* C6: the lookup answers with the metrics of a record of its key whose age is
\* at most the TTL and whose timestamp is the greatest among those; with no
\* such record it answers nothing and the call goes on to compute.
C6_LookupNewestFresh ==
    [][\A r \in Req :
          (pc[r] = "osm_lookup" /\ pc'[r] # "osm_lookup") =>
              IF FreshOsm(r) = {}
              THEN pc'[r] = "osm_compute" /\ result'[r] = result[r]
              ELSE /\ pc'[r] # "osm_compute"
                   /\ result'[r].osm.cached
                   /\ \E t \in FreshOsm(r) :
                        /\ \A u \in FreshOsm(r) : u.extracted_at <= t.extracted_at
                        /\ result'[r].osm.metrics = t.metrics
      ]_vars

\* a lookup came back empty although a record of its key, now too old, is stored
C6_Witness ==
    \E r \in Req :
        /\ pc[r] = "osm_compute" /\ ~req[r].osm_refresh
        /\ \E t \in osmDb : SameOsmKey(t, r) /\ now - t.extracted_at > OsmTtlTicks
        /\ \E u \in osmDb : ~SameOsmKey(u, r) /\ now - u.extracted_at <= OsmTtlTicks

\* --------------------------------------------- unit-of-work properties
\* the rows a weather read of request r returned are rows r can see
ReadOwnOrCommitted(r, out) ==
    \A i \in 1..Len(out) :
        \E t \in wxDb \cup pendWx[r].ins :
            /\ t.lat_round = out[i].lat_round /\ t.lon_round = out[i].lon_round
            /\ t.date = out[i].date /\ t.provider = out[i].provider
            /\ t.values = out[i].values

\* C7: a request is one unit of work.  The tables change only when a handler
\* that completed commits, and then by exactly the rows it flushed; a handler
\* that fails leaves the tables as they are and drops its flushed rows; and a
\* read returns only committed rows and the reader's own.
C7_UnitOfWork ==
    [][/\ (wxDb' # wxDb \/ osmDb' # osmDb) =>
            \E r \in Req : /\ pc[r] = "return" /\ pc'[r] = "done"
                           /\ err[r] = "none"
                           /\ wxDb' = wxDb \cup pendWx[r].ins
                           /\ osmDb' = osmDb \cup pendOsm[r]
       /\ \A r \in Req :
            /\ (pc[r] # "failed" /\ pc'[r] = "failed") =>
                  /\ wxDb' = wxDb /\ osmDb' = osmDb
                  /\ pendWx'[r] = NoWrites /\ pendOsm'[r] = {}
            /\ (pc[r] = "osm_lookup" /\ pc'[r] # "osm_lookup") =>
                  (result'[r].osm.cached <=>
                      \E t \in osmDb \cup pendOsm[r] :
                          /\ SameOsmKey(t, r)
                          /\ now - t.extracted_at <= OsmTtlTicks)
            /\ (pc[r] \in {"wx_select", "wx_reload"} /\ result'[r].has_weather) =>
                  ReadOwnOrCommitted(r, result'[r].rows)
      ]_vars

\* a call that computed and flushed an OSM record was then rejected for its
\* missing date, and the table is still empty
C7_Witness ==
    \E r \in Req :
        /\ pc[r] = "failed" /\ err[r] = "HTTP400"
        /\ RejectedAs(req[r]) = "none"
        /\ req[r].include_osm /\ req[r].include_weather
        /\ (req[r].start = NoDate \/ req[r].end = NoDate)
        /\ osmDb = {}
        /\ \E r2 \in Req \ {r} : pc[r2] = "osm_compute" /\ ~req[r2].osm_refresh

\* C8: a failure of the weather pipeline does not abort the call: the OSM
\* and geometry sections are still returned.
C8_WeatherFailureContained ==
    \A r \in Req :
        (req[r].kind = "enrich_point" /\ err[r] \in {"HTTPError", "IntegrityError"}) =>
            pc[r] # "failed"

\* ------------------------------------------- weather result properties
\* the committed records of the weather bucket of request r
BucketRows(db, r) ==
    {t \in db : /\ t.lat_round = round_coord(req[r].lat, 4)
                /\ t.lon_round = round_coord(req[r].lon, 4)
                /\ t.provider = "openmeteo"}

\* C11: a weather request that fetched for a bucket with no record, and commits
\* with no other request having written to that bucket, leaves exactly one
\* record for each day of [start, end] in the bucket and none for another day.
C11_OneRecordPerDayPersisted ==
    [][\A r \in Req :
          (/\ pc[r] = "return" /\ pc'[r] = "done"
           /\ Len(fetches[r]) = 1
           /\ BucketRows(wxDb, r) = {}) =>
              /\ {t.date : t \in BucketRows(wxDb', r)} = RangeDays(r)
              /\ Cardinality(BucketRows(wxDb', r)) = Cardinality(RangeDays(r))
      ]_vars

\* C12: the rows a weather request returned are one for each day of
\* [start, end], in ascending date order, each with the rounded coordinates of
\* the bucket and the provider tag.
C12_OneRowPerDayReturned ==
    \A r \in Req :
        (result[r].has_weather /\ req[r].kind = "weather_daily") =>
            /\ Len(result[r].rows) = Cardinality(RangeDays(r))
            /\ \A i \in 1..Len(result[r].rows) :
                 /\ result[r].rows[i].date = req[r].start + i - 1
                 /\ result[r].rows[i].lat_round = round_coord(req[r].lat, 4)
                 /\ result[r].rows[i].lon_round = round_coord(req[r].lon, 4)
                 /\ result[r].rows[i].provider = "openmeteo"

\* -------------------------------------------- OSM history properties
KeyRows(db, r) == {t \in db : SameOsmKey(t, r)}

\* C13: a compute for a key that another request is computing or has stored
\* still adds its own record and does not fail; its commit removes nothing, so
\* both records of the key are stored afterwards; and a lookup that finds
\* several fresh records of the key answers with one of the latest.
C13_ConcurrentSnapshotsKept ==
    [][\A r \in Req :
          /\ (pc[r] = "osm_compute" /\ pc'[r] # "osm_compute") =>
                /\ pc'[r] # "failed" /\ err'[r] = "none"
                /\ \E n \in pendOsm'[r] : n \notin AllOsmRows /\ SameOsmKey(n, r)
          /\ (pc[r] = "return" /\ pc'[r] = "done") =>
                /\ KeyRows(osmDb, r) \subseteq osmDb'
                /\ pendOsm[r] \subseteq osmDb'
                /\ Cardinality(KeyRows(osmDb', r)) =
                      Cardinality(KeyRows(osmDb, r)) + Cardinality(pendOsm[r])
          /\ (pc[r] = "osm_lookup" /\ pc'[r] # "osm_lookup" /\ FreshOsm(r) # {}) =>
                /\ result'[r].osm.cached
                /\ result'[r].osm.metrics \in
                      {t.metrics : t \in {x \in FreshOsm(r) :
                            \A u \in FreshOsm(r) : u.extracted_at <= x.extracted_at}}
      ]_vars

\* two requests computed the same key at the same time, both records are
\* committed, and a later lookup of the key was answered from them
C13_Witness ==
    \E r \in Req : \E r2 \in Req \ {r} :
        /\ pc[r] = "done" /\ result[r].osm.cached
        /\ pc[r2] = "done" /\ ~req[r2].osm_refresh /\ ~result[r2].osm.cached
        /\ SameOsmRequest(r, r2)
        /\ \E t1 \in osmDb, t2 \in osmDb :
             /\ t1.id = r /\ t2.id = r2
             /\ SameOsmKey(t1, r) /\ SameOsmKey(t2, r)
             /\ t1.extracted_at = t2.extracted_at
             /\ result[r].osm.metrics \in {t1.metrics, t2.metrics}

\* C14: the OSM table only grows, one record at a time: a lookup step writes
\* nothing, a compute step adds one new record to the session, a commit adds
\* the session's records, and no step changes or removes a stored record.
C14_OsmAppendOnly ==
    [][/\ \A t \in osmDb : t \in osmDb'
       /\ \A r \in Req :
            /\ (pc[r] = "osm_lookup" /\ pc'[r] # "osm_lookup") =>
                  (pendOsm' = pendOsm /\ osmDb' = osmDb)
            /\ (pc[r] = "osm_compute" /\ pc'[r] # "osm_compute") =>
                  /\ osmDb' = osmDb
                  /\ \E n \in pendOsm'[r] :
                       n \notin AllOsmRows /\ pendOsm'[r] = pendOsm[r] \cup {n}
            /\ (pc[r] = "return" /\ pc'[r] = "done") =>
                  /\ osmDb' = osmDb \cup pendOsm[r]
                  /\ Cardinality(osmDb' \ osmDb) = IF result[r].osm.cached THEN 0 ELSE 1
      ]_vars

\* a lookup missed because the record of its key had expired; the call computed
\* and committed, and the expired record is still stored
C14_Witness ==
    \E r \in Req :
        /\ pc[r] = "done" /\ ~req[r].osm_refresh /\ ~result[r].osm.cached
        /\ \E n \in osmDb, t \in osmDb :
             /\ SameOsmKey(n, r) /\ SameOsmKey(t, r)
             /\ n.id = r /\ n.metrics = result[r].osm.metrics
             /\ n.extracted_at - t.extracted_at > OsmTtlTicks

\* --------------------------------------------- Overpass client properties
\* the query that a step of the client has just returned from, "" if none
ReturnedFrom ==
    IF ov.phase = "roads" /\ ov'.phase = "facilities" THEN "roads"
    ELSE IF ov.phase = "facilities" /\ ov'.phase = "done" THEN "facilities"
    ELSE ""

\* C15: a query makes at most Retries HTTP attempts and does not raise; every
\* attempt that fails (429, error status, timeout or connection error,
\* unparsable body) uses up one attempt; the query returns the body of its
\* first successful attempt, or None once Retries attempts have failed.
C15_QueryBoundedAttempts ==
    [][/\ ov.tries.roads <= Retries /\ ov.tries.facilities <= Retries
       /\ ~ov.raised /\ ~ov'.raised
       /\ InQuery =>
            /\ ov.attempt \in 1..Retries
            /\ ov.tries[ov.phase] = ov.attempt - 1
            /\ ov'.tries[ov.phase] = ov.tries[ov.phase] + 1
            /\ IF ReturnedFrom = ""
               THEN ov'.phase = ov.phase /\ ov'.attempt = ov.attempt + 1
               ELSE \/ ov'.data[ov.phase] = NoneData /\ ov'.tries[ov.phase] = Retries
                    \/ ov'.data[ov.phase] \in Bodies /\ ov'.tries[ov.phase] = ov.attempt
      ]_vars

\* the roads query gave up after its last attempt and the facilities query
\* succeeded at its last one
C15_Witness ==
    /\ ov.phase = "done"
    /\ ov.data.roads = NoneData /\ ov.tries.roads = Retries
    /\ ~ov.data.facilities.none /\ ov.tries.facilities = Retries

\* C17: when a map query failed or returned no elements, the compute raises
\* nothing and its part of the metrics is zero: no road length and no class
\* bucket, or seven facility counters of 0; the metrics carry the buffer radius,
\* the input point and source "overpass".
C17_EmptyQueriesGiveZeroMetrics ==
    ov.phase = "done" =>
        /\ ~ov.raised
        /\ DOMAIN ov.metrics = {"road_total_length_m", "road_length_by_class_m",
                                "facility_counts", "buffer_m", "point", "source"}
        /\ ov.metrics.buffer_m = ov.buffer_m
        /\ ov.metrics.point = [lat |-> ov.lat, lon |-> ov.lon]
        /\ ov.metrics.source = "overpass"
        /\ (ov.data.roads.none \/ ov.data.roads.elements = <<>>) =>
              /\ ov.metrics.road_total_length_m = 0
              /\ DOMAIN ov.metrics.road_length_by_class_m = {}
        /\ (ov.data.facilities.none \/ ov.data.facilities.elements = <<>>) =>
              ov.metrics.facility_counts =
                  [amenity |-> 0, shop |-> 0, leisure |-> 0, tourism |-> 0,
                   public_transport |-> 0, bus_stop |-> 0, rail_stop |-> 0]

\* the roads query ran out of attempts and the facilities query matched nothing
C17_Witness ==
    /\ ov.phase = "done"
    /\ ov.data.roads.none /\ ov.tries.roads = Retries
    /\ ov.data.facilities = Body({"elements"}, <<>>)
    /\ ov.metrics.road_total_length_m = 0
    /\ ov.metrics.facility_counts.amenity = 0

\* ---------------------------------------------- fail-closed properties
\* C16: the weather client reports no empty result as a success: a fetch from
\* which the handler goes on delivered rows, so the flush that follows it writes
\* a record for a day that was missing.
C16_FetchFailsClosed ==
    [][\A r \in Req :
          (pc[r] = "wx_fetch" /\ pc'[r] = "wx_reload") =>
              pendWx'[r].ins # pendWx[r].ins
      ]_vars

\* ------------------------------------------- input validation properties
Over == {"idle", "done", "failed"}

\* a worker takes a new call in this step
Started(r) ==
    /\ pc[r] \in Over
    /\ <<pc[r], req[r], err[r], detail[r], result[r], fetches[r]>> #
       <<pc'[r], req'[r], err'[r], detail'[r], result'[r], fetches'[r]>>

\* C18: an enrich call with an unknown mode, or with dataset names that are
\* not known, is rejected with a 400 as its first step; the rejection for
\* dataset names lists every unknown name; no table row, no session write and
\* no external call comes from it, and no call with such input is ever in
\* progress.
C18_RejectedBeforeAnyEffect ==
    [][\A r \in Req :
          /\ (pc[r] \notin Over /\ req[r].kind = "enrich_point") =>
                (req[r].mode \in Modes /\ Requested(req[r]) \subseteq DatasetModels)
          /\ (/\ Started(r) /\ req'[r].kind = "enrich_point"
              /\ (req'[r].mode \notin Modes \/ Requested(req'[r]) \ DatasetModels # {})) =>
                /\ pc'[r] = "failed" /\ err'[r] = "HTTP400"
                /\ detail'[r] = IF req'[r].mode \notin Modes
                                THEN [about |-> "mode", unknown |-> {}]
                                ELSE [about |-> "datasets",
                                      unknown |-> Requested(req'[r]) \ DatasetModels]
                /\ result'[r] = NoResult /\ fetches'[r] = <<>>
                /\ wxDb' = wxDb /\ osmDb' = osmDb
                /\ pendWx' = pendWx /\ pendOsm' = pendOsm
                /\ ov' = ov /\ now' = now
      ]_vars

\* a call naming two unknown datasets was rejected while the cache held records
C18_Witness ==
    \E r \in Req :
        /\ pc[r] = "failed" /\ err[r] = "HTTP400"
        /\ detail[r].about = "datasets" /\ Cardinality(detail[r].unknown) = 2
        /\ osmDb # {} /\ wxDb # {}

\* the call in progress asks for weather and lacks a date
DatesMissing(r) ==
    /\ pc[r] \notin Over
    /\ req[r].kind = "enrich_point"
    /\ req[r].include_weather
    /\ (req[r].start = NoDate \/ req[r].end = NoDate)

\* C19: an enrich call that asks for weather without a start or an end date
\* never enters the weather pipeline and never returns a result: it ends with
\* a 400 about the dates, an empty response, and the tables as they were, the
\* records its session had flushed being dropped.
C19_MissingDatesRejected ==
    [][\A r \in Req :
          DatesMissing(r) =>
              /\ pc'[r] \in {"osm_lookup", "osm_compute", "wx_check", "wx_reject", "failed"}
              /\ pc'[r] = "failed" =>
                    /\ err'[r] = "HTTP400" /\ detail'[r].about = "dates"
                    /\ result'[r] = NoResult
                    /\ wxDb' = wxDb /\ osmDb' = osmDb
                    /\ pendWx'[r] = NoWrites /\ pendOsm'[r] = {}
              /\ \A t \in osmDb' \ osmDb : t \notin pendOsm[r]
      ]_vars

\* a call without an end date computed its OSM record and was then rejected;
\* the OSM table is still empty
C19_Witness ==
    \E r \in Req :
        /\ pc[r] = "failed" /\ err[r] = "HTTP400" /\ detail[r].about = "dates"
        /\ req[r].start # NoDate /\ req[r].end = NoDate
        /\ req[r].include_osm /\ ~req[r].osm_refresh
        /\ osmDb = {} /\ pendOsm[r] = {} /\ now > 0

\* C20: a call rejected for a malformed bbox is answered as a bad request.
C20_MalformedBboxIsBadRequest ==
    \A r \in Req :
        (pc[r] = "failed" /\ detail[r].about = "bbox") => err[r] = "HTTP400"

\* ----------------------------------------------------- backoff properties
\* the sleeps a step of the running query has added
NewSleeps == SubSeq(ov'.slept, Len(ov.slept) + 1, Len(ov'.slept))

\* the query goes from attempt k to attempt k + 1 in this step
Retried == InQuery /\ ov'.phase = ov.phase /\ ov'.attempt = ov.attempt + 1

\* C30: between failed attempt k and attempt k + 1 the client waits
\* backoff_s * k, 2 s after the first failure and 4 s after the second.
C30_WaitIsBackoffTimesAttempt ==
    [][Retried => NewSleeps = <<BackoffS * ov.attempt>>]_vars


\* ------------------------------------------------ road aggregation properties
\* the metrics of a compute that ran to its end
Computed == ov.phase = "done" /\ ~ov.raised

\* the ways of the roads answer that carry a highway tag and two points or more
TaggedWays ==
    LET data == ov.data.roads
    IN  IF data.none \/ "elements" \notin data.keys THEN {}
        ELSE {i \in 1..Len(data.elements) :
                 /\ data.elements[i].type = "way"
                 /\ data.elements[i].highway # ""
                 /\ data.elements[i].npoints >= 2}

RECURSIVE SumBy(_, _)
SumBy(f, S) == IF S = {} THEN 0 ELSE LET x == CHOOSE y \in S : TRUE
                                     IN  f[x] + SumBy(f, S \ {x})

AbsDiff(a, b) == IF a >= b THEN a - b ELSE b - a

\* C27: the lengths by class are keyed by the seven buckets only, every way with
\* a highway tag and two points or more is counted in the total, the buckets sum
\* to the total up to the rounding of each term to 0.01 m, and a motorway way
\* with a residential way gives exactly two buckets, both non-zero.
C27_RoadBucketsPartitionTotal ==
    Computed =>
        LET m == ov.metrics
            by == m.road_length_by_class_m
            els == ov.data.roads.elements
            raw == [i \in TaggedWays |-> els[i].len_mm]
        IN  /\ DOMAIN by \subseteq BucketNames
            /\ m.road_total_length_m = round2(SumBy(raw, TaggedWays))
            /\ AbsDiff(SumBy(by, DOMAIN by), m.road_total_length_m)
                   <= 5 * (Cardinality(DOMAIN by) + 1)
            /\ (TaggedWays = {}) = (DOMAIN by = {})
            /\ {els[i].highway : i \in TaggedWays} = {"motorway", "residential"}
                   => /\ DOMAIN by = {"motorway", "residential"}
                      /\ \A b \in DOMAIN by : by[b] > 0

\* a motorway way and a residential way were aggregated
C27_Witness ==
    /\ Computed
    /\ {ov.data.roads.elements[i].highway : i \in TaggedWays} = {"motorway", "residential"}
    /\ ov.metrics.road_length_by_class_m =
           [b \in {"motorway", "residential"} |->
               IF b = "motorway" THEN 250000 ELSE 100000]
    /\ ov.metrics.road_total_length_m = 350010

\* -------------------------------------------------- quantizer properties
Quantized == calc.fn = "round_coord"

\* the rounding unit of a precision, in 10^-6 degree
Unit(precision) == Pow10(Scale - precision)

\* C25: the quantizer is idempotent and deterministic: quantizing a key gives
\* the key, equal inputs give equal keys, and the key is the multiple of the
\* rounding unit nearest to the input, above it or below it.
C25_QuantizerIdempotentNearest ==
    Quantized =>
        LET u == Unit(calc.precision)
        IN  /\ calc.kkx = calc.kx
            /\ calc.x = calc.y => calc.kx = calc.ky
            /\ calc.kx % u = 0
            /\ 2 * AbsDiff(calc.kx, calc.x) <= u

\* a coordinate was rounded up to the nearest key, where truncation gives the
\* key below, and quantizing that key again gave it back
C25_Witness ==
    /\ Quantized
    /\ calc.precision = WeatherPrecision
    /\ calc.x = 60 /\ calc.kx = 100 /\ calc.kkx = 100

BoundaryBetween(x, y, u) ==
    \E b \in (IF x <= y THEN x ELSE y)..(IF x <= y THEN y ELSE x) : 2 * (b % u) = u

Built == calc.fn = "bbox_from_point_radius"

\* C29: for every point and radius that enrich_point accepts, the envelope has
\* minx < maxx and miny < maxy, is centred on the point, and its deltas double
\* (up to one 10^-6 degree of truncation) when the radius doubles.
C29_EnvelopeWellFormed ==
    Built =>
        LET a == calc.b1
            b == calc.b2
        IN  /\ a.minx < a.maxx
            /\ a.miny < a.maxy
            /\ a.minx + a.maxx = 2 * calc.lon
            /\ a.miny + a.maxy = 2 * calc.lat
            /\ calc.r2 = 2 * calc.r1 =>
                   /\ AbsDiff(b.maxx - b.minx, 2 * (a.maxx - a.minx)) <= 2
                   /\ AbsDiff(b.maxy - b.miny, 2 * (a.maxy - a.miny)) <= 2

\* ---------------------------------------------------- envelope precedence
\* an enrichment call that passed the checks at the top of the handler
Enriching(r) == req[r].kind = "enrich_point" /\ result[r].bbox.source # "none"

Bounds(b) == <<b.minx, b.miny, b.maxx, b.maxy>>

\* C21: in enrich_point an explicit bbox wins over point and radius: the bbox of
\* the response is the caller's bounds with source "user" and is not the
\* envelope of point and radius; without a bbox it is bbox_from_point_radius of
\* the point with source "computed_from_radius". Every bbox-mode layer query of
\* the call uses that envelope.
C21_ExplicitBboxWins ==
    \A r \in Req :
        Enriching(r) =>
            LET q == req[r]
                bb == result[r].bbox
                built == bbox_from_point_radius(q.lat, q.lon, q.radius_m)
            IN  /\ q.bbox # <<>> => /\ Bounds(bb) = q.bbox
                                    /\ bb.source = "user"
                                    /\ Bounds(bb) # Bounds(built)
                /\ q.bbox = <<>> => bb = built /\ bb.source = "computed_from_radius"
                /\ \A g \in result[r].geometries :
                       g.mode = "bbox" => <<g.minx, g.miny, g.maxx, g.maxy>> = Bounds(bb)

\* a call with a bbox and a point 300 m around which the envelope is another one
\* ran its bbox-mode layer queries with the caller's bounds
C21_Witness ==
    \E r \in Req :
        /\ Enriching(r)
        /\ req[r].bbox = <<23310000, 42680000, 23330000, 42700000>>
        /\ result[r].bbox = [minx |-> 23310000, miny |-> 42680000, maxx |-> 23330000,
                             maxy |-> 42700000, source |-> "user"]
        /\ bbox_from_point_radius(req[r].lat, req[r].lon, req[r].radius_m) =
               [minx |-> 23316334, miny |-> 42687318, maxx |-> 23323666,
                maxy |-> 42692706, source |-> "computed_from_radius"]
        /\ \E g \in result[r].geometries :
               g.mode = "bbox" /\ g.minx = 23310000 /\ g.ids # <<>>

\* ------------------------------------------------- static layer properties
\* C28: no step of any request inserts, updates or deletes a row of a static
\* layer table; the tables that change are weather_daily_point and
\* osm_metrics_point.
C28_StaticLayersReadOnly == [][layers' = layers]_vars

\* a call has written both cache tables and returned rows of a static layer,
\* and the layers are as imported
C28_Witness ==
    /\ layers = StaticLayers
    /\ wxDb # {}
    /\ osmDb # {}
    /\ \E r \in Req :
          /\ pc[r] = "done"
          /\ \E g \in result[r].geometries : g.ids # <<>>

\* ------------------------------------------------ feature query properties
\* the feature queries a request has run
QueriesOf(r) == IF pc[r] \in {"return", "done"} THEN result[r].geometries ELSE {}

\* the cap of a layer in the endpoint that serves the request, the requested
\* limit where the endpoint has none for the layer
CapOf(r, d) ==
    IF req[r].kind = "enrich_point"
    THEN (IF d \in {"trees", "buildings"} THEN 10000 ELSE 20000)
    ELSE (IF d \in {"trees", "buildings", "streets", "green_areas"} THEN 20000
          ELSE req[r].limit)

Least(S) == CHOOSE x \in S : \A y \in S : x <= y

\* the rows of the layer that pass the filter of a query
Matching(g) ==
    {u \in layers[g.dataset] :
        IF g.mode = "bbox"
        THEN /\ g.minx <= u.x /\ u.x <= g.maxx
             /\ g.miny <= u.y /\ u.y <= g.maxy
        ELSE DWithin(u, g.lat, g.lon, g.radius_m)}

\* how many of the rows have an id in a..b
RECURSIVE CountIn(_, _, _)
CountIn(rows, a, b) ==
    IF rows = {} THEN 0
    ELSE LET t == CHOOSE u \in rows : TRUE
             lo == IF t.lo >= a THEN t.lo ELSE a
             hi == IF t.hi <= b THEN t.hi ELSE b
         IN  (IF lo <= hi THEN hi - lo + 1 ELSE 0) + CountIn(rows \ {t}, a, b)

\* C22: a layer query is issued with the least of the requested limit, the cap
\* of the layer and the global maximum page size of 50000, and returns no more
\* features than that: limit=2000 on a layer capped at 10000 gives 2000 at most
\* and limit=50000 on it gives 10000 at most.
C22_FeaturesBoundedByLimits ==
    \A r \in Req :
        \A g \in QueriesOf(r) :
            /\ g.limit = Least({req[r].limit, CapOf(r, g.dataset), 50000})
            /\ Size(g.ids) <= g.limit
            /\ (req[r].kind = "enrich_point" /\ g.dataset = "trees") =>
                   /\ req[r].limit = 2000 => Size(g.ids) <= 2000
                   /\ req[r].limit = 50000 => Size(g.ids) <= 10000

\* enrich_point asked for trees with limit=50000 and queried with 10000, while
\* a dataset call with limit=60000 got 50000 of the 60001 pois around its point
C22_Witness ==
    /\ req[1].kind = "enrich_point" /\ req[1].limit = 50000
    /\ \E g \in QueriesOf(1) : g.dataset = "trees" /\ g.limit = 10000 /\ g.ids # <<>>
    /\ req[2].limit = 60000
    /\ \E g \in QueriesOf(2) :
          /\ g.limit = 50000
          /\ g.ids = <<[lo |-> 1, hi |-> 50000]>>
          /\ CountIn(Matching(g), 1, 70000) = 60001

\* two calls for one dataset with one filter and one limit n, the second at the
\* offset of the first plus n
NextPage(r, g, s, h) ==
    /\ req[r].limit = req[s].limit
    /\ req[s].offset = req[r].offset + req[r].limit
    /\ [g EXCEPT !.offset = 0, !.ids = <<>>] = [h EXCEPT !.offset = 0, !.ids = <<>>]

\* the id ranges are in ascending order, all of them rows that pass the filter
Ascending(g, ids) ==
    /\ \A i \in 1..Len(ids) :
          /\ ids[i].lo <= ids[i].hi
          /\ CountIn(Matching(g), ids[i].lo, ids[i].hi) = ids[i].hi - ids[i].lo + 1
    /\ \A i \in 1..Len(ids), j \in 1..Len(ids) : i < j => ids[i].hi < ids[j].lo

\* the ids are the rows number k+1 to k+n that pass the filter, or those after
\* number k when there are fewer
Contiguous(g, ids, k, n) ==
    LET total == CountIn(Matching(g), 0, 2000000000)
    IN  IF ids = <<>> THEN total <= k
        ELSE /\ CountIn(Matching(g), 0, ids[1].lo - 1) = k
             /\ CountIn(Matching(g), ids[1].lo, ids[Len(ids)].hi) = Size(ids)
             /\ Size(ids) = (IF total - k < n THEN total - k ELSE n)

\* C23: a feature query returns its rows in ascending id order, and the pages
\* requested with (offset=k, limit=n) and (offset=k+n, limit=n) for one dataset
\* and one filter are disjoint and contiguous: together they are the matching
\* rows number k+1 to k+2n in id order, none repeated and none skipped.
C23_PagesDisjointContiguous ==
    \A r \in Req :
        \A g \in QueriesOf(r) :
            /\ Ascending(g, g.ids)
            /\ \A s \in Req \ {r} :
                   \A h \in QueriesOf(s) :
                       NextPage(r, g, s, h) =>
                           /\ Ascending(g, g.ids \o h.ids)
                           /\ Contiguous(g, g.ids \o h.ids, req[r].offset, 2 * req[r].limit)

\* ------------------------------------------------ same-place properties
\* two calls whose points round to one key at five decimals, with one radius
SameOsmPlace(r1, r2) ==
    /\ round_coord(req[r1].lat, 5) = round_coord(req[r2].lat, 5)
    /\ round_coord(req[r1].lon, 5) = round_coord(req[r2].lon, 5)
    /\ req[r1].radius_m = req[r2].radius_m

\* two calls whose points round to one key at four decimals, with one date range
SameWeatherPlace(r1, r2) ==
    /\ round_coord(req[r1].lat, 4) = round_coord(req[r2].lat, 4)
    /\ round_coord(req[r1].lon, 4) = round_coord(req[r2].lon, 4)
    /\ req[r1].start = req[r2].start
    /\ req[r1].end = req[r2].end

\* r1 computed its metrics and committed; its record is within the TTL and the
\* newest stored under its key
OsmFilledBy(r1) ==
    /\ pc[r1] = "done"
    /\ result[r1].has_osm /\ ~result[r1].osm.cached
    /\ \E t \in osmDb :
         /\ t.id = r1 /\ t.metrics = result[r1].osm.metrics
         /\ now - t.extracted_at <= OsmTtlTicks
         /\ \A u \in osmDb \ {t} :
               (u.lat_round = t.lat_round /\ u.lon_round = t.lon_round
                   /\ u.buffer_m = t.buffer_m) => u.extracted_at < t.extracted_at

\* r1 is over, committed, and returned a row for every day of its range
WeatherFilledBy(r1) ==
    /\ pc[r1] = "done"
    /\ result[r1].has_weather
    /\ req[r1].start <= req[r1].end
    /\ Len(result[r1].rows) = req[r1].end - req[r1].start + 1

\* C24: two requests whose coordinates round to the same key are one place for
\* the caches. Once one of them has filled the cache, the lookup of the other
\* (same radius within the TTL for OSM, same date range for weather) is answered
\* from the cache, without a compute and without a fetch; and a request is only
\* ever served an entry stored under its own rounded key.
C24_SameKeySamePlace ==
    [][\A r2 \in Req :
          /\ \A r1 \in Req \ {r2} :
                /\ (/\ OsmFilledBy(r1) /\ SameOsmPlace(r1, r2)
                    /\ pc[r2] = "osm_lookup" /\ pc'[r2] # "osm_lookup") =>
                       /\ pc'[r2] # "osm_compute"
                       /\ result'[r2].osm.cached
                       /\ result'[r2].osm.metrics = result[r1].osm.metrics
                       /\ pendOsm'[r2] = pendOsm[r2]
                /\ (/\ WeatherFilledBy(r1) /\ SameWeatherPlace(r1, r2)
                    /\ pc[r2] = "wx_select" /\ pc'[r2] # "wx_select") =>
                       /\ pc'[r2] # "wx_fetch"
                       /\ fetches'[r2] = <<>>
                       /\ pendWx'[r2] = pendWx[r2]
                       /\ result'[r2].rows = result[r1].rows
          /\ (pc[r2] = "osm_lookup" /\ result'[r2].has_osm /\ result'[r2].osm.cached) =>
                LET m == result'[r2].osm.metrics
                IN  /\ round_coord(m.point.lat, 5) = round_coord(req[r2].lat, 5)
                    /\ round_coord(m.point.lon, 5) = round_coord(req[r2].lon, 5)
                    /\ m.buffer_m = req[r2].radius_m
          /\ (pc[r2] = "wx_select" /\ result'[r2].has_weather /\ fetches'[r2] = <<>>) =>
                \A i \in 1..Len(result'[r2].rows) :
                    /\ result'[r2].rows[i].lat_round = round_coord(req[r2].lat, 4)
                    /\ result'[r2].rows[i].lon_round = round_coord(req[r2].lon, 4)
      ]_vars

\* the call from 42.690013 was answered with the metrics computed for 42.690012
\* and with the day fetched for it, without a fetch of its own, while a record
\* of the other bucket is stored
C24_Witness ==
    /\ OsmFilledBy(1) /\ WeatherFilledBy(1)
    /\ req[1].lat = 42690012 /\ req[2].lat = 42690013
    /\ pc[2] = "done"
    /\ result[2].osm.cached
    /\ result[2].osm.metrics = result[1].osm.metrics
    /\ result[2].osm.metrics.point.lat = 42690012
    /\ Len(fetches[1]) = 1 /\ fetches[2] = <<>>
    /\ Len(result[2].rows) = 1 /\ result[2].rows = result[1].rows
    /\ \E u \in osmDb : u.lat_round = 42690060

\* ------------------------------------------------- empty range properties
\* the request of r asks for a range whose first day is after its last day
EmptyRange(r) == req[r].kind = "weather_daily" /\ req[r].start > req[r].end

\* C37: a weather request whose start date is after its end date finds no gap,
\* issues no fetch, writes no record and returns the empty list with no error.
C37_EmptyRangeReturnsEmpty ==
    \A r \in Req :
        EmptyRange(r) =>
            /\ pc[r] \in {"wx_select", "return", "done"}
            /\ fetches[r] = <<>>
            /\ pendWx[r] = NoWrites
            /\ err[r] = "none"
            /\ pc[r] \in {"return", "done"} =>
                   result[r].has_weather /\ result[r].rows = <<>>

\* such a request is over while its bucket holds a record of each of its two days
C37_Witness ==
    \E r \in Req :
        /\ EmptyRange(r) /\ pc[r] = "done"
        /\ \A d \in {req[r].start, req[r].end} :
             \E t \in wxDb : /\ t.lat_round = WxLat(r) /\ t.lon_round = WxLon(r)
                             /\ t.date = d

\* ------------------------------------------------- weather fetch properties
\* r and s ask for the same range of the same weather bucket
SameWeatherFill(r, s) ==
    /\ round_coord(req[r].lat, WeatherPrecision) = round_coord(req[s].lat, WeatherPrecision)
    /\ round_coord(req[r].lon, WeatherPrecision) = round_coord(req[s].lon, WeatherPrecision)
    /\ req[r].start = req[s].start /\ req[r].end = req[s].end

\* every weather row stored, committed or not
AllWxRows == wxDb \cup UNION {pendWx[r].ins \cup pendWx[r].upd : r \in Req}

\* C38: the external weather fetch is made with the rounded coordinates and the
\* whole requested range, so requests from different points of one bucket for
\* one range issue identical fetches, and a stored record carries the bucket,
\* never the point that caused the fill.
C38_FetchByBucketAndRange ==
    /\ \A r \in Req : \A i \in 1..Len(fetches[r]) :
           fetches[r][i] = <<round_coord(req[r].lat, WeatherPrecision),
                             round_coord(req[r].lon, WeatherPrecision),
                             req[r].start, req[r].end>>
    /\ \A r \in Req : \A s \in Req :
           SameWeatherFill(r, s) =>
               \A i \in 1..Len(fetches[r]) : \A j \in 1..Len(fetches[s]) :
                   fetches[r][i] = fetches[s][j]
    /\ \A t \in AllWxRows :
           /\ t.lat_round = round_coord(t.lat_round, WeatherPrecision)
           /\ t.lon_round = round_coord(t.lon_round, WeatherPrecision)
           /\ DOMAIN t = {"lat_round", "lon_round", "date", "provider", "values"}

\* two requests from different points of one bucket have both fetched, and one
\* of them has stored the rows of the fill
C38_Witness ==
    \E r \in Req : \E s \in Req \ {r} :
        /\ req[r].lat # req[s].lat
        /\ SameWeatherFill(r, s)
        /\ Len(fetches[r]) = 1 /\ Len(fetches[s]) = 1
        /\ \E t \in wxDb : t.lat_round # req[r].lat /\ t.lat_round # req[s].lat

\* ------------------------------------------------- date check properties
\* the call of r asks for OSM metrics and weather and lacks a date
Dateless(r) ==
    /\ req[r].kind = "enrich_point"
    /\ req[r].include_osm /\ req[r].include_weather
    /\ req[r].start = NoDate \/ req[r].end = NoDate

\* a lookup of the key of r over the rows db, made now, finds no record
LookupMisses(db, r) ==
    OsmCandidates(db, OsmLat(r), OsmLon(r), req[r].radius_m, now - OsmTtlTicks) = {}

\* the step rejects the call of r for its dates
RejectsDates(r) == pc[r] # "failed" /\ pc'[r] = "failed" /\ detail'[r].about = "dates"

\* C33: enrich_point checks the dates after its OSM section: a call with OSM
\* and weather and a missing date is rejected only once its OSM result is there,
\* the rejection stores nothing of what the call wrote, and if the call found no
\* record then the same call made again finds none either.
C33_DatesCheckedAfterOsm ==
    [][\A r \in Req :
          /\ (Dateless(r) /\ pc'[r] \in {"wx_reject", "wx_select", "wx_fetch", "wx_reload"}) =>
                 pc'[r] = "wx_reject" /\ result'[r].has_osm
          /\ (Dateless(r) /\ RejectsDates(r)) =>
                 /\ pc[r] = "wx_reject" /\ result[r].has_osm
                 /\ err'[r] = "HTTP400"
                 /\ osmDb' = osmDb /\ pendOsm'[r] = {}
                 /\ req'[r] = req[r]
                 /\ (~result[r].osm.cached /\ LookupMisses(osmDb, r)) =>
                        LookupMisses(osmDb', r)
      ]_vars

\* the call has computed and flushed a record, no committed record of its key
\* is fresh, and the rejection is next
C33_Witness ==
    \E r \in Req :
        /\ Dateless(r) /\ pc[r] = "wx_reject"
        /\ ~req[r].osm_refresh
        /\ result[r].has_osm /\ ~result[r].osm.cached
        /\ pendOsm[r] # {}
        /\ LookupMisses(osmDb, r)

\* ------------------------------------------------- rate-limit properties
\* the rate-limit sleeps that a step adds to the running query
NewDelays == IF InQuery THEN ov'.delays[ov.phase] - ov.delays[ov.phase] ELSE 0

\* the HTTP attempts that a step adds to the running query
NewTries == IF InQuery THEN ov'.tries[ov.phase] - ov.tries[ov.phase] ELSE 0

\* the step answers the OSM request of r from the cache
ServedFromCache(r) == ~result[r].has_osm /\ result'[r].has_osm /\ result'[r].osm.cached

\* C31: a step of the client that returns the body of a successful call has
\* slept the rate-limit delay exactly once; the delay is slept at most once per
\* HTTP attempt and never without one; a request answered from the cache starts
\* no query and adds no attempt and no sleep, and the client is in a query only
\* for a request that missed the cache or forced a refresh.
C31_DelayOncePerSuccessfulCall ==
    [][/\ NewDelays \in {0, 1}
       /\ NewDelays = 1 => NewTries = 1
       /\ (ReturnedFrom # "" /\ ~ov'.data[ov.phase].none) =>
              /\ NewDelays = 1
              /\ ov'.data[ov.phase] \in Bodies
              /\ ReturnedFrom = "facilities" => NewSleeps = <<RateLimitDelayS>>
       /\ ~InQuery => \/ ov' = ov
                      \/ /\ ov'.delays = NoRun.delays /\ ov'.tries = NoRun.tries
                         /\ ov'.slept = <<>>
       /\ \A r \in Req :
              /\ ServedFromCache(r) => pc[r] = "osm_lookup" /\ ov' = ov
              /\ pc'[r] = "osm_query" => pc[r] \in {"osm_compute", "osm_query"}
       /\ InQuery => \E r \in Req : pc[r] = "osm_query" /\ ~result[r].has_osm
      ]_vars

\* a request was answered from the cache after the run that computed the record:
\* the run made a failed and a successful call for the roads and slept the delay
\* once for each successful call
C31_Witness ==
    \E r \in Req :
        /\ pc[r] = "done" /\ result[r].osm.cached
        /\ ov.phase = "done"
        /\ ov.metrics = result[r].osm.metrics
        /\ ov.tries.roads = 2 /\ ov.delays.roads = 1
        /\ ov.tries.facilities = 1 /\ ov.delays.facilities = 1

\* ------------------------------------------------- failed compute properties
\* the step stores the metrics of the compute of r
Stores(r) == pc[r] = "osm_query" /\ pc'[r] # "osm_query"

\* the facility counts are all zero
NoFacilities(m) == \A k \in DOMAIN m.facility_counts : m.facility_counts[k] = 0

\* the records of the key of r that a lookup made now accepts
FreshOf(r) ==
    {t \in osmDb \cup pendOsm[r] :
        /\ t.lat_round = round_coord(req[r].lat, OsmPrecision)
        /\ t.lon_round = round_coord(req[r].lon, OsmPrecision)
        /\ t.buffer_m = req[r].radius_m
        /\ now - t.extracted_at <= OsmTtlTicks}

\* C32: a compute whose map queries failed is stored like any other: its
\* metrics, zero where a query returned None, become a record stamped now; and a
\* lookup that finds a fresh record of its key answers cached=true with the
\* metrics of such a record, zeros included, without a compute, while a lookup
\* that finds none goes on to compute.
C32_FailedComputeIsCached ==
    [][\A r \in Req :
          /\ Stores(r) =>
                /\ ov.data.roads.none =>
                       /\ ov.metrics.road_total_length_m = 0
                       /\ DOMAIN ov.metrics.road_length_by_class_m = {}
                /\ ov.data.facilities.none => NoFacilities(ov.metrics)
                /\ \E t \in pendOsm'[r] \ pendOsm[r] :
                       /\ t.metrics = ov.metrics /\ t.extracted_at = now
                       /\ t.lat_round = round_coord(req[r].lat, OsmPrecision)
                       /\ t.lon_round = round_coord(req[r].lon, OsmPrecision)
                       /\ t.buffer_m = req[r].radius_m
                /\ result'[r].osm = [cached |-> FALSE, metrics |-> ov.metrics]
          /\ (pc[r] = "osm_lookup" /\ pc'[r] # "osm_lookup") =>
                IF FreshOf(r) # {}
                THEN /\ pc'[r] = "return" /\ ov' = ov
                     /\ result'[r].osm.cached
                     /\ \E t \in FreshOf(r) : result'[r].osm.metrics = t.metrics
                ELSE pc'[r] = "osm_compute"
      ]_vars

\* both queries of a compute returned None, its all-zero record was committed,
\* and a request from another point of the bucket was answered with it
C32_Witness ==
    \E r \in Req :
        /\ pc[r] = "done" /\ result[r].osm.cached
        /\ result[r].osm.metrics.road_total_length_m = 0
        /\ NoFacilities(result[r].osm.metrics)
        /\ result[r].osm.metrics.point.lat # req[r].lat
        /\ ov.phase = "done" /\ ov.data.roads.none /\ ov.data.facilities.none
        /\ ov.metrics = result[r].osm.metrics
        /\ \E t \in osmDb : t.metrics = ov.metrics /\ t.id # r

\* ------------------------------------------------- point echo properties
\* the point as a request gave it
PointOf(q) == [lat |-> q.lat, lon |-> q.lon]

\* C34: the payload of a cache hit is the stored metrics with cached=true, so
\* its point is the unrounded point of the request that computed the record;
\* the payload of a miss or of a forced refresh carries the point of the request
\* itself.
C34_HitEchoesComputingPoint ==
    /\ \A t \in AllOsmRows : t.metrics.point = PointOf(req[t.id])
    /\ \A r \in Req :
           result[r].has_osm =>
               IF result[r].osm.cached
               THEN \E t \in osmDb \cup pendOsm[r] :
                        /\ t.lat_round = round_coord(req[r].lat, OsmPrecision)
                        /\ t.lon_round = round_coord(req[r].lon, OsmPrecision)
                        /\ t.buffer_m = req[r].radius_m
                        /\ result[r].osm.metrics = t.metrics
               ELSE result[r].osm.metrics.point = PointOf(req[r])

\* a request was answered from the record of a forced refresh made from
\* another point of its bucket: the point it got back is neither its own nor
\* the rounded one
C34_Witness ==
    \E r \in Req : \E s \in Req \ {r} :
        /\ pc[r] = "done" /\ result[r].osm.cached
        /\ req[s].osm_refresh /\ ~result[s].osm.cached
        /\ result[s].osm.metrics.point = PointOf(req[s])
        /\ result[r].osm.metrics.point = PointOf(req[s])
        /\ PointOf(req[s]) # PointOf(req[r])
        /\ result[r].osm.metrics.point.lat # round_coord(req[r].lat, OsmPrecision)

\* ------------------------------------------------------- purge properties
\* the step deletes committed records
Purges == osmDb \ osmDb' # {} \/ wxDb \ wxDb' # {}

\* the records of db that the age test of the lookup accepts now
YoungEnough(db) == {t \in db : t.extracted_at >= now - OsmTtlTicks}

\* C36: the purge deletes an OSM record only if its extracted_at is strictly
\* before now minus the TTL, and the lookup accepts a record only if its
\* extracted_at is at or after now minus the TTL: what a purge leaves is what
\* the lookup's age test accepts, and no request loses a record that its
\* lookup would serve at that instant.
C36_PurgeKeepsWhatLookupServes ==
    [][Purges =>
          /\ now' = now
          /\ \A t \in osmDb \ osmDb' : t.extracted_at < now - OsmTtlTicks
          /\ osmDb' = YoungEnough(osmDb)
          /\ \A la \in Lats, lo \in Lons, rad \in Radii :
                 LET key(db) == OsmCandidates(db, round_coord(la, OsmPrecision),
                                              round_coord(lo, OsmPrecision), rad,
                                              now - OsmTtlTicks)
                 IN  key(osmDb') = key(osmDb)
      ]_vars

\* the record that worker r had computed is gone, and another worker was
\* answered from a record whose extracted_at is exactly now minus the TTL
C36_Witness ==
    \E r \in Req : \E s \in Req \ {r} :
        /\ pc[r] = "done" /\ result[r].has_osm /\ ~result[r].osm.cached
        /\ \A t \in osmDb : t.id # r
        /\ pc[s] = "done" /\ result[s].osm.cached
        /\ \E t \in osmDb : /\ t.extracted_at = now - OsmTtlTicks
                            /\ t.metrics = result[s].osm.metrics

\* ------------------------------------------------- weather expiry properties
\* the days of the range of r that the session of r finds recorded in its bucket
Recorded(r) ==
    {t.date : t \in {u \in ApplyWrites(wxDb, pendWx[r]) :
                        /\ u.lat_round = round_coord(req[r].lat, WeatherPrecision)
                        /\ u.lon_round = round_coord(req[r].lon, WeatherPrecision)
                        /\ u.provider = "openmeteo"
                        /\ u.date \in RangeDays(r)}}

====
